---- MODULE Spec2Model ----
(***************************************************************************)
(* Model of the Mother MCP skill synchronisation engine                    *)
(* (dmgrok/mcp_mother_skills): the SkillInstaller preview/confirm session  *)
(* protocol, the immediate sync, and the materializer, together with the   *)
(* tool handlers of the server that drive them.                            *)
(*                                                                         *)
(* Conventions                                                             *)
(*  - strings of the program are TLA+ strings; version strings are only    *)
(*    ever compared with !==, so they are kept as opaque strings;          *)
(*  - a JavaScript array is a sequence, a Map is a sequence of entries in  *)
(*    insertion order with unique keys;                                    *)
(*  - confidences are kept in thousandths (0.95 is 950);                   *)
(*  - the clock counts minutes (Date.now() is in milliseconds);            *)
(*  - a preview id, sync_<time>_<random> in the program, is the serial     *)
(*    number of the preview: no two previews share an id;                  *)
(*  - one tool call is one action: the server reloads its configuration   *)
(*    and rebuilds its components at the start of every call;              *)
(*  - .mcp/mother/project-context.yaml, which the handlers rewrite after a *)
(*    sync, is not part of the state: nothing on the synchronisation path  *)
(*    reads it.                                                            *)
(***************************************************************************)
EXTENDS Integers, Sequences, FiniteSets, TLC

VARIABLES
    config,        \* .mcp/mother/config.yaml as loaded by loadConfig
    fs,            \* the installation directories: which exist, and what they hold
    pendingSyncs,  \* the module-level Map of pending syncs, keyed by preview id
    nextId,        \* number of preview ids generated so far
    now,           \* Date.now(), in minutes
    detectedStack, \* what projectDetector.detect() reports for the project
    last,          \* the tool call that has just returned, and what it returned
    confirmed,     \* history: the preview ids on which a confirmSync has completed
    catalog,       \* what registryClient.getAllSkills() returns
    resolving,     \* the locals of a running resolveDependencies call
    registries,    \* RegistryClient.registries, as the constructor leaves it
    cacheFiles,    \* the registry cache files on disk, one per registry url
    today,         \* Date.now() of the registry client, in days
    localStack,    \* what the ProjectDetector has put together
    skillFiles,    \* the files of each skill directory under one install path
    cachedBundles, \* RegistryClient.cachedBundles
    bundlesCache,  \* the file bundles-cache.json
    defaultAgent,  \* the agent object of the module-level DEFAULT_CONFIG
    configFile,    \* the file .mcp/mother/config.yaml
    context,       \* the file .mcp/mother/project-context.yaml: its manual lists
    inflight       \* the confirmSync calls that have started and not yet returned

vars == <<config, detectedStack, fs, pendingSyncs, nextId, now, last, confirmed, catalog,
          resolving, registries, cacheFiles, today, localStack,
          skillFiles, cachedBundles, bundlesCache, defaultAgent, configFile,
          context, inflight>>

\* the variables that no tool call of the server writes
\* the variables of the components that are studied one at a time
beside == <<context, inflight>>

aside == <<skillFiles, cachedBundles, bundlesCache, defaultAgent, configFile, beside>>

outside == <<resolving, registries, cacheFiles, today, localStack, aside>>

-----------------------------------------------------------------------------
(* Bounds of the model *)

MaxPreviews == 2     \* preview ids that may be generated in one behaviour
MaxTime == 6         \* the clock stops advancing here
MaxDay == 7          \* the last day the registry client's clock reaches

-----------------------------------------------------------------------------
(* Program constants *)

FiveMinutes == 5     \* 5 * 60 * 1000 ms, in minutes
CacheMaxAgeDays == 7 \* cache.refresh_interval_days, the cacheMaxAgeDays of the client

NoVersion == "undefined"     \* an absent oldVersion
NoPath == "undefined"        \* an absent install_path
NoAgent == "undefined"       \* an absent agent parameter
\* an optional array parameter: absent, or given with its elements
NoList == [given |-> FALSE, names |-> <<>>]
Given(names) == [given |-> TRUE, names |-> names]

Absent == "absent"           \* no directory of that name
NoSkillMd == "no SKILL.md"   \* a skill directory without SKILL.md

SkillNames == {"typescript", "react", "nextjs"}
Versions == {"0.9.0", "1.0.0"}
DirStates == {Absent, NoSkillMd} \cup Versions

AgentIds == {"claude", "copilot"}

AGENT_PROFILES ==
    [a \in AgentIds |->
        IF a = "claude"
        THEN [id |-> "claude",  projectSkillPaths |-> <<".claude/skills", ".github/skills">>]
        ELSE [id |-> "copilot", projectSkillPaths |-> <<".github/skills", ".claude/skills">>]]

Paths == {".claude/skills", ".github/skills"}

\* The agent that agentDetector.detect() reports for this project.
DetectedAgent == "claude"

\* The catalog returned by registryClient.getAllSkills().
Registry ==
    << [name |-> "typescript", version |-> "1.0.0", dependencies |-> <<>>,
        triggers |-> [packages |-> <<"typescript">>, manual_only |-> FALSE]],
       [name |-> "react", version |-> "1.0.0", dependencies |-> <<"typescript">>,
        triggers |-> [packages |-> <<"react">>, manual_only |-> FALSE]] >>

-----------------------------------------------------------------------------
(* Array helpers *)

Range(s) == {s[i] : i \in 1..Len(s)}

Includes(s, x) == \E i \in 1..Len(s) : s[i] = x

\* index of the first element whose name is n, 0 when there is none
FindIndex(s, n) ==
    IF \E i \in 1..Len(s) : s[i].name = n
    THEN CHOOSE i \in 1..Len(s) : s[i].name = n /\ \A j \in 1..(i-1) : s[j].name # n
    ELSE 0

-----------------------------------------------------------------------------
(* String helpers: String.prototype.toLowerCase and includes *)

Lower(c) ==
    CASE c = "N" -> "n"
      [] c = "R" -> "r"
      [] c = "S" -> "s"
      [] c = "T" -> "t"
      [] OTHER -> c

RECURSIVE ToLowerCase(_)
ToLowerCase(s) ==
    IF Len(s) = 0 THEN ""
    ELSE Lower(SubSeq(s, 1, 1)) \o ToLowerCase(SubSeq(s, 2, Len(s)))

StrIncludes(s, p) ==
    \E i \in 1..(Len(s) - Len(p) + 1) : SubSeq(s, i, i + Len(p) - 1) = p

-----------------------------------------------------------------------------
(* SkillInstaller: matching and dependency resolution *)

\* [...stack.languages, ...stack.frameworks, ...] of matchSkillsToStack
AllDetected(stack) ==
    stack.languages \o stack.frameworks \o stack.databases
        \o stack.infrastructure \o stack.tools

\* the detections whose source contains one of the skill's trigger packages
PackageHits(skill, allDetected) ==
    {i \in 1..Len(allDetected) :
        \E k \in 1..Len(skill.triggers.packages) :
            StrIncludes(ToLowerCase(allDetected[i].source),
                        ToLowerCase(skill.triggers.packages[k]))}

\* a loop body without the "Skip manual-only skills" line
MatchOneNoSkip(skill, allDetected) ==
    LET direct == {i \in 1..Len(allDetected) : allDetected[i].id = skill.name}
        hits == PackageHits(skill, allDetected)
        first(S) == CHOOSE i \in S : \A j \in S : i <= j
    IN  IF direct # {}
        THEN << [skill |-> skill,
                 matchedBy |-> "detected: " \o allDetected[first(direct)].source,
                 confidence |-> allDetected[first(direct)].confidence,
                 source |-> "discovery"] >>
        ELSE IF hits # {}
        THEN << [skill |-> skill,
                 matchedBy |-> "package trigger: " \o allDetected[first(hits)].source,
                 confidence |-> (allDetected[first(hits)].confidence * 9) \div 10,
                 source |-> "discovery"] >>
        ELSE <<>>

\* the matches one catalog entry contributes: none or one
MatchOne(skill, allDetected) ==
    LET direct == {i \in 1..Len(allDetected) : allDetected[i].id = skill.name}
        hits == PackageHits(skill, allDetected)
        first(S) == CHOOSE i \in S : \A j \in S : i <= j
    IN  IF skill.triggers.manual_only THEN <<>>
        ELSE IF direct # {}
        THEN << [skill |-> skill,
                 matchedBy |-> "detected: " \o allDetected[first(direct)].source,
                 confidence |-> allDetected[first(direct)].confidence,
                 source |-> "discovery"] >>
        ELSE IF hits # {}
        THEN << [skill |-> skill,
                 matchedBy |-> "package trigger: " \o allDetected[first(hits)].source,
                 confidence |-> (allDetected[first(hits)].confidence * 9) \div 10,
                 source |-> "discovery"] >>
        ELSE <<>>

RECURSIVE MatchFrom(_, _, _)
MatchFrom(i, allDetected, availableSkills) ==
    IF i > Len(availableSkills) THEN <<>>
    ELSE MatchOne(availableSkills[i], allDetected)
            \o MatchFrom(i + 1, allDetected, availableSkills)

matchSkillsToStack(stack, availableSkills) ==
    MatchFrom(1, AllDetected(stack), availableSkills)

\* an "Add manually required skills" loop that turns the match of a name
\* that was also detected into a manual one
RECURSIVE AddManualOverrides(_, _, _)
AddManualOverrides(matched, always_include, availableSkills) ==
    IF always_include = <<>> THEN matched
    ELSE LET skillName == Head(always_include)
             k == FindIndex(availableSkills, skillName)
             manual == [skill |-> availableSkills[k],
                        matchedBy |-> "manual (always_include)",
                        confidence |-> 1000,
                        source |-> "manual"]
             next == IF k = 0 THEN matched
                     ELSE IF \E i \in 1..Len(matched) : matched[i].skill.name = skillName
                     THEN [i \in 1..Len(matched) |->
                             IF matched[i].skill.name = skillName THEN manual ELSE matched[i]]
                     ELSE Append(matched, manual)
         IN  AddManualOverrides(next, Tail(always_include), availableSkills)

\* the "Add manually required skills" loop of previewSync and syncSkills
RECURSIVE AddManual(_, _, _)
AddManual(matched, always_include, availableSkills) ==
    IF always_include = <<>> THEN matched
    ELSE LET skillName == Head(always_include)
             k == FindIndex(availableSkills, skillName)
             present == \E i \in 1..Len(matched) : matched[i].skill.name = skillName
             next == IF k # 0 /\ ~present
                     THEN Append(matched, [skill |-> availableSkills[k],
                                           matchedBy |-> "manual (always_include)",
                                           confidence |-> 1000,
                                           source |-> "manual"])
                     ELSE matched
         IN  AddManual(next, Tail(always_include), availableSkills)

\* matches.filter(m => !always_exclude.includes(m.skill.name))
RECURSIVE DropExcluded(_, _)
DropExcluded(matches, always_exclude) ==
    IF matches = <<>> THEN <<>>
    ELSE IF Includes(always_exclude, Head(matches).skill.name)
         THEN DropExcluded(Tail(matches), always_exclude)
         ELSE <<Head(matches)>> \o DropExcluded(Tail(matches), always_exclude)

\* Map.has / Map.set on a Map kept as a sequence of matches keyed by skill name
MapHas(resolved, name) == \E i \in 1..Len(resolved) : resolved[i].skill.name = name

MapSet(resolved, match) ==
    IF MapHas(resolved, match.skill.name)
    THEN [i \in 1..Len(resolved) |->
            IF resolved[i].skill.name = match.skill.name THEN match ELSE resolved[i]]
    ELSE Append(resolved, match)

RECURSIVE MapSetAll(_, _)
MapSetAll(resolved, matches) ==
    IF matches = <<>> THEN resolved
    ELSE MapSetAll(MapSet(resolved, Head(matches)), Tail(matches))

\* a loop over current.skill.dependencies that adds nothing
AddDependenciesNone(resolved, toProcess, current, d, availableSkills) ==
    [resolved |-> resolved, toProcess |-> toProcess]

\* the loop over current.skill.dependencies
RECURSIVE AddDependencies(_, _, _, _, _)
AddDependencies(resolved, toProcess, current, d, availableSkills) ==
    IF d > Len(current.skill.dependencies) THEN [resolved |-> resolved, toProcess |-> toProcess]
    ELSE LET depName == current.skill.dependencies[d]
             k == FindIndex(availableSkills, depName)
             depMatch == [skill |-> availableSkills[k],
                          matchedBy |-> "dependency of " \o current.skill.name,
                          confidence |-> (current.confidence * 8) \div 10,
                          source |-> "dependency"]
         IN  IF ~MapHas(resolved, depName) /\ k # 0
             THEN AddDependencies(MapSet(resolved, depMatch), Append(toProcess, depMatch),
                                  current, d + 1, availableSkills)
             ELSE AddDependencies(resolved, toProcess, current, d + 1, availableSkills)

\* a work-list loop that expands the matches it was given and never the
\* dependencies it has added
RECURSIVE ResolveLoopShallow(_, _, _)
ResolveLoopShallow(resolved, toProcess, availableSkills) ==
    IF toProcess = <<>> THEN resolved
    ELSE LET current == toProcess[Len(toProcess)]
             rest == SubSeq(toProcess, 1, Len(toProcess) - 1)
             r == AddDependencies(resolved, rest, current, 1, availableSkills)
         IN  ResolveLoopShallow(r.resolved, rest, availableSkills)

\* the work-list loop: pop the last element, expand it
RECURSIVE ResolveLoop(_, _, _)
ResolveLoop(resolved, toProcess, availableSkills) ==
    IF toProcess = <<>> THEN resolved
    ELSE LET current == toProcess[Len(toProcess)]
             rest == SubSeq(toProcess, 1, Len(toProcess) - 1)
             r == AddDependencies(resolved, rest, current, 1, availableSkills)
         IN  ResolveLoop(r.resolved, r.toProcess, availableSkills)

\* a resolveDependencies that returns the matches it was given
resolveDependenciesNone(matches, availableSkills) == MapSetAll(<<>>, matches)

resolveDependencies(matches, availableSkills) ==
    ResolveLoop(MapSetAll(<<>>, matches), matches, availableSkills)

\* the locals of resolveDependencies when no call is running
NotResolving == [pc |-> "idle", matches |-> <<>>, resolved |-> <<>>, toProcess |-> <<>>]

\* lines shared by previewSync and syncSkills: match, add manual, exclude,
\* resolve, exclude again (FinalSkillsFilteredOnce leaves the last step out)
FinalSkillsFilteredOnce(stack, cfg, availableSkills) ==
    LET matchedSkills == AddManual(matchSkillsToStack(stack, availableSkills),
                                   cfg.skills.always_include, availableSkills)
        filteredSkills == DropExcluded(matchedSkills, cfg.skills.always_exclude)
    IN  resolveDependencies(filteredSkills, availableSkills)

FinalSkills(stack, cfg, availableSkills) ==
    LET matchedSkills == AddManual(matchSkillsToStack(stack, availableSkills),
                                   cfg.skills.always_include, availableSkills)
        filteredSkills == DropExcluded(matchedSkills, cfg.skills.always_exclude)
        resolvedSkills == resolveDependencies(filteredSkills, availableSkills)
    IN  DropExcluded(resolvedSkills, cfg.skills.always_exclude)

-----------------------------------------------------------------------------
(* SkillInstaller: paths and the installation directory *)

\* A file system state is [dirs, skills]: dirs[p] tells whether install path p
\* exists, skills[p][n] is the DirState of the directory p/n.

getInstallPath(profile, cfg) ==
    IF cfg.agent_overrides[profile.id] # NoPath THEN cfg.agent_overrides[profile.id]
    ELSE IF cfg.install_path # NoPath THEN cfg.install_path
    ELSE profile.projectSkillPaths[1]

resolveTargetAgents(override, cfg, agentProfile) ==
    IF override = "both" \/ cfg.agent.sync_both THEN <<"claude", "copilot">>
    ELSE IF override # NoAgent /\ override # "auto" THEN <<override>>
    ELSE <<agentProfile.id>>

\* fs.readdir lists the entries in name order
DirOrder == <<"nextjs", "react", "typescript">>

RECURSIVE ReadInstalled(_, _, _)
ReadInstalled(f, installPath, i) ==
    IF i > Len(DirOrder) THEN <<>>
    ELSE LET n == DirOrder[i]
             st == f.skills[installPath][n]
         IN  (IF st \in Versions THEN << [name |-> n, version |-> st] >> ELSE <<>>)
                \o ReadInstalled(f, installPath, i + 1)

getInstalledSkills(f, cfg, agentProfile) ==
    LET installPath == getInstallPath(agentProfile, cfg)
    IN  IF f.dirs[installPath] THEN ReadInstalled(f, installPath, 1) ELSE <<>>

\* fs.mkdir(installPath, { recursive: true })
MkdirInstallPath(f, installPath) == [f EXCEPT !.dirs[installPath] = TRUE]

\* the version that getInstalledSkills reads back from the SKILL.md that
\* fetchSkillContent returns for a catalog entry: metadata.version || '1.0.0'.
\* The document comes from the skill's repository, the version of the entry
\* from the index; an entry without a frontmatter field stands for a document
\* that declares the version the index lists
ContentVersion(skill) ==
    IF "frontmatter" \in DOMAIN skill
    THEN IF skill.frontmatter.version = NoVersion THEN "1.0.0"
         ELSE skill.frontmatter.version
    ELSE skill.version

NoFault == [name |-> "none", stage |-> "none"]

\* installSkill with its body wrapped in a try/catch that logs and returns
installSkillSwallows(f, skill, installPath, fault) ==
    LET st == f.skills[installPath][skill.name]
        made == [f EXCEPT !.dirs[installPath] = TRUE,
                          !.skills[installPath][skill.name] =
                              IF st = Absent THEN NoSkillMd ELSE st]
        written == [made EXCEPT !.skills[installPath][skill.name] = skill.version]
    IN  IF fault.name # skill.name THEN [fs |-> written, ok |-> TRUE]
        ELSE IF fault.stage = "mkdir" THEN [fs |-> f, ok |-> TRUE]
        ELSE IF fault.stage = "content" THEN [fs |-> made, ok |-> TRUE]
        ELSE [fs |-> written, ok |-> TRUE]

\* installSkill: mkdir skillDir, fetch and write SKILL.md, fetch and write the
\* resources.  fault names the skill whose installation throws and the stage
\* at which it does; the outcome is the file system left behind and whether
\* the call returned.
installSkill(f, skill, installPath, fault) ==
    LET st == f.skills[installPath][skill.name]
        made == [f EXCEPT !.dirs[installPath] = TRUE,
                          !.skills[installPath][skill.name] =
                              IF st = Absent THEN NoSkillMd ELSE st]
        written == [made EXCEPT !.skills[installPath][skill.name] = ContentVersion(skill)]
    IN  IF fault.name # skill.name THEN [fs |-> written, ok |-> TRUE]
        ELSE IF fault.stage = "mkdir" THEN [fs |-> f, ok |-> FALSE]
        ELSE IF fault.stage = "content" THEN [fs |-> made, ok |-> FALSE]
        ELSE [fs |-> written, ok |-> FALSE]

\* uninstallSkill that logs and removes nothing
uninstallSkillKeeps(f, skillName, installPath) == f

\* uninstallSkill: fs.rm(skillDir, { recursive: true }); a missing directory
\* makes fs.rm throw, which is caught and logged
uninstallSkill(f, skillName, installPath) ==
    IF skillName \notin SkillNames \/ f.skills[installPath][skillName] = Absent THEN f
    ELSE [f EXCEPT !.skills[installPath][skillName] = Absent]

-----------------------------------------------------------------------------
(* SkillInstaller.previewSync *)

\* ChangeFor with the two versions of an update exchanged
ChangeForSwapped(match, installedSkills) ==
    LET k == FindIndex(installedSkills, match.skill.name)
    IN  IF k # 0
        THEN IF installedSkills[k].version # match.skill.version
             THEN << [name |-> match.skill.name, version |-> installedSkills[k].version,
                      oldVersion |-> match.skill.version,
                      source |-> match.source, action |-> "update"] >>
             ELSE <<>>
        ELSE << [name |-> match.skill.name, version |-> match.skill.version,
                 oldVersion |-> NoVersion,
                 source |-> match.source, action |-> "add"] >>

\* "Process each skill to determine action": at most one change per match
ChangeFor(match, installedSkills) ==
    LET k == FindIndex(installedSkills, match.skill.name)
    IN  IF k # 0
        THEN IF installedSkills[k].version # match.skill.version
             THEN << [name |-> match.skill.name, version |-> match.skill.version,
                      oldVersion |-> installedSkills[k].version,
                      source |-> match.source, action |-> "update"] >>
             ELSE <<>>
        ELSE << [name |-> match.skill.name, version |-> match.skill.version,
                 oldVersion |-> NoVersion,
                 source |-> match.source, action |-> "add"] >>

RECURSIVE AddUpdateChanges(_, _)
AddUpdateChanges(finalSkills, installedSkills) ==
    IF finalSkills = <<>> THEN <<>>
    ELSE ChangeFor(Head(finalSkills), installedSkills)
            \o AddUpdateChanges(Tail(finalSkills), installedSkills)

\* "Check for skills to remove"
RECURSIVE RemoveChanges(_, _)
RemoveChanges(installedSkills, requiredNames) ==
    IF installedSkills = <<>> THEN <<>>
    ELSE (IF Head(installedSkills).name \notin requiredNames
          THEN << [name |-> Head(installedSkills).name,
                   version |-> Head(installedSkills).version,
                   oldVersion |-> NoVersion,
                   source |-> "discovery", action |-> "remove"] >>
          ELSE <<>>)
            \o RemoveChanges(Tail(installedSkills), requiredNames)

\* a diff that lists what is no longer required whatever the removal policy
PendingChangesAlwaysRemove(finalSkills, installedSkills, cfg) ==
    AddUpdateChanges(finalSkills, installedSkills)
        \o RemoveChanges(installedSkills,
                         {finalSkills[i].skill.name : i \in 1..Len(finalSkills)})

PendingChanges(finalSkills, installedSkills, cfg) ==
    AddUpdateChanges(finalSkills, installedSkills)
        \o (IF cfg.sync.auto_remove
            THEN RemoveChanges(installedSkills,
                               {finalSkills[i].skill.name : i \in 1..Len(finalSkills)})
            ELSE <<>>)

RECURSIVE NamesWithSource(_, _)
\* manual_skills (manual = TRUE) and discovered_skills (manual = FALSE)
NamesWithSource(finalSkills, manual) ==
    IF finalSkills = <<>> THEN <<>>
    ELSE (IF (Head(finalSkills).source = "manual") = manual
          THEN <<Head(finalSkills).skill.name>> ELSE <<>>)
            \o NamesWithSource(Tail(finalSkills), manual)

\* the SyncPreview that previewSync builds and returns
BuildPreview(stack, installedSkills, cfg, availableSkills, previewId) ==
    LET finalSkills == FinalSkills(stack, cfg, availableSkills)
        pendingChanges == PendingChanges(finalSkills, installedSkills, cfg)
    IN  [pending_changes |-> pendingChanges,
         manual_skills |-> NamesWithSource(finalSkills, TRUE),
         discovered_skills |-> NamesWithSource(finalSkills, FALSE),
         requires_confirmation |-> Len(pendingChanges) > 0 /\ cfg.sync.prompt_on_changes,
         preview_id |-> previewId]

\* a clean-up loop that deletes nothing
SweptNothing(table, time) == {}

\* "Clean up old pending syncs (older than 5 minutes)"
Swept(table, time) ==
    {id \in DOMAIN table : table[id].timestamp < time - FiveMinutes}

Restrict(table, ids) == [id \in ids |-> table[id]]

\* StorePending that stores the preview only when it has pending changes
StorePendingIfChanges(table, previewId, entry, time) ==
    LET stored == [id \in DOMAIN table \cup
                            (IF entry.preview.pending_changes = <<>> THEN {} ELSE {previewId}) |->
                      IF id = previewId THEN entry ELSE table[id]]
    IN  Restrict(stored, DOMAIN stored \ Swept(stored, time))

\* a previewSync that starts from a new Map and keeps only its own session
StorePendingAlone(table, previewId, entry, time) ==
    [id \in {previewId} |-> entry]

\* pendingSyncs.set(previewId, ...) followed by the clean-up loop
StorePending(table, previewId, entry, time) ==
    LET stored == [id \in DOMAIN table \cup {previewId} |->
                      IF id = previewId THEN entry ELSE table[id]]
    IN  Restrict(stored, DOMAIN stored \ Swept(stored, time))

\* previewSync: the preview it returns and the session table it leaves
previewSync(table, stack, installedSkills, cfg, agentProfile, availableSkills, previewId, time) ==
    LET preview == BuildPreview(stack, installedSkills, cfg, availableSkills, previewId)
        entry == [preview |-> preview,
                  matches |-> FinalSkills(stack, cfg, availableSkills),
                  installPath |-> getInstallPath(agentProfile, cfg),
                  installedSkills |-> installedSkills,
                  timestamp |-> time]
    IN  [preview |-> preview,
         pendingSyncs |-> StorePending(table, previewId, entry, time)]

-----------------------------------------------------------------------------
(* SkillInstaller.confirmSync *)

EmptyResult(agents, paths) ==
    [added |-> <<>>, updated |-> <<>>, removed |-> <<>>, unchanged |-> <<>>,
     agent |-> agents, paths |-> paths]

\* Skipped with the approved list consulted first and deciding alone
SkippedApprovedFirst(change, approvedSkills, rejectedSkills) ==
    IF approvedSkills.given THEN ~Includes(approvedSkills.names, change.name)
    ELSE rejectedSkills.given /\ Includes(rejectedSkills.names, change.name)

\* the two "continue" tests at the head of the confirmSync loop
Skipped(change, approvedSkills, rejectedSkills) ==
    \/ rejectedSkills.given /\ Includes(rejectedSkills.names, change.name)
    \/ approvedSkills.given /\ ~Includes(approvedSkills.names, change.name)

SkillChange(change) ==
    [name |-> change.name, version |-> change.version,
     oldVersion |-> change.oldVersion, source |-> change.source]

\* the loop over pending.preview.pending_changes, from change i on.  An
\* installSkill that throws ends the loop and the call.
RECURSIVE ApplyPending(_, _, _, _, _, _, _)
ApplyPending(f, result, pending, i, approvedSkills, rejectedSkills, fault) ==
    IF i > Len(pending.preview.pending_changes)
    THEN [fs |-> f, result |-> result, ok |-> TRUE]
    ELSE LET change == pending.preview.pending_changes[i]
             k == FindIndex([j \in 1..Len(pending.matches) |-> pending.matches[j].skill],
                            change.name)
             inst == installSkill(f, pending.matches[k].skill, pending.installPath, fault)
         IN  IF Skipped(change, approvedSkills, rejectedSkills)
             THEN ApplyPending(f, result, pending, i + 1,
                               approvedSkills, rejectedSkills, fault)
             ELSE IF change.action \in {"add", "update"}
             THEN IF k = 0
                  THEN ApplyPending(f, result, pending, i + 1,
                                    approvedSkills, rejectedSkills, fault)
                  ELSE IF ~inst.ok
                  THEN [fs |-> inst.fs, result |-> result, ok |-> FALSE]
                  ELSE ApplyPending(inst.fs,
                          IF change.action = "add"
                          THEN [result EXCEPT !.added = Append(@, SkillChange(change))]
                          ELSE [result EXCEPT !.updated = Append(@, SkillChange(change))],
                          pending, i + 1, approvedSkills, rejectedSkills, fault)
             ELSE ApplyPending(uninstallSkill(f, change.name, pending.installPath),
                               [result EXCEPT !.removed = Append(@, SkillChange(change))],
                               pending, i + 1, approvedSkills, rejectedSkills, fault)

\* "Mark unchanged skills"
RECURSIVE MarkUnchanged(_, _)
MarkUnchanged(result, installedSkills) ==
    IF installedSkills = <<>> THEN result
    ELSE LET installed == Head(installedSkills)
             wasChanged == \E c \in Range(result.added) \cup Range(result.updated)
                                      \cup Range(result.removed) : c.name = installed.name
         IN  MarkUnchanged(
                IF wasChanged THEN result
                ELSE [result EXCEPT !.unchanged =
                         Append(@, [name |-> installed.name, version |-> installed.version,
                                    oldVersion |-> NoVersion, source |-> NoVersion])],
                Tail(installedSkills))

\* pendingSyncs.get(previewId)
HasPending(table, previewId) == previewId \in DOMAIN table

\* a confirmSync that forgets to delete the session
KeepPending(table, previewId) == table

\* pendingSyncs.delete(previewId)
DeletePending(table, previewId) == Restrict(table, DOMAIN table \ {previewId})

\* a missing preview answered with an empty result instead of an error
NotFoundSilent(f, table) ==
    [outcome |-> "ok", result |-> EmptyResult(<<>>, <<>>), fs |-> f, pendingSyncs |-> table]

\* if (!pending) throw new Error(`Preview "..." not found or expired. ...`)
NotFound(f, table) ==
    [outcome |-> "not found or expired", result |-> EmptyResult(<<>>, <<>>),
     fs |-> f, pendingSyncs |-> table]

\* confirmSync: the outcome ("ok", or the error thrown), the result returned,
\* and the file system and session table left behind
confirmSync(f, table, previewId, approvedSkills, rejectedSkills, agentProfile, fault) ==
    IF ~HasPending(table, previewId) THEN NotFound(f, table)
    ELSE LET pending == table[previewId]
             applied == ApplyPending(MkdirInstallPath(f, pending.installPath),
                                     EmptyResult(<<agentProfile.id>>, <<pending.installPath>>),
                                     pending, 1, approvedSkills, rejectedSkills, fault)
         IN  IF ~applied.ok
             THEN [outcome |-> "install failed", result |-> EmptyResult(<<>>, <<>>),
                   fs |-> applied.fs, pendingSyncs |-> table]
             ELSE [outcome |-> "ok",
                   result |-> MarkUnchanged(applied.result, pending.installedSkills),
                   fs |-> applied.fs,
                   pendingSyncs |-> DeletePending(table, previewId)]

-----------------------------------------------------------------------------
(* SkillInstaller.syncSkills *)

\* "Process each skill" for one install path, from match i on
RECURSIVE SyncMatches(_, _, _, _, _, _, _, _)
SyncMatches(f, result, resolvedSkills, i, installedSkills, installPath, dryRun, fault) ==
    IF i > Len(resolvedSkills) THEN [fs |-> f, result |-> result, ok |-> TRUE]
    ELSE LET match == resolvedSkills[i]
             k == FindIndex(installedSkills, match.skill.name)
             needed == k = 0 \/ installedSkills[k].version # match.skill.version
             inst == IF needed /\ ~dryRun
                     THEN installSkill(f, match.skill, installPath, fault)
                     ELSE [fs |-> f, ok |-> TRUE]
             entry == [name |-> match.skill.name, version |-> match.skill.version,
                       oldVersion |-> IF k # 0 /\ needed THEN installedSkills[k].version
                                      ELSE NoVersion,
                       source |-> NoVersion]
         IN  IF ~inst.ok THEN [fs |-> inst.fs, result |-> result, ok |-> FALSE]
             ELSE SyncMatches(inst.fs,
                    IF k = 0 THEN [result EXCEPT !.added = Append(@, entry)]
                    ELSE IF needed THEN [result EXCEPT !.updated = Append(@, entry)]
                    ELSE [result EXCEPT !.unchanged = Append(@, entry)],
                    resolvedSkills, i + 1, installedSkills, installPath, dryRun, fault)

\* "Check for skills to remove" for one install path, from installed skill i on
RECURSIVE SyncRemovals(_, _, _, _, _, _, _)
SyncRemovals(f, result, installedSkills, i, requiredNames, installPath, dryRun) ==
    IF i > Len(installedSkills) THEN [fs |-> f, result |-> result]
    ELSE LET installed == installedSkills[i]
         IN  IF installed.name \in requiredNames
             THEN SyncRemovals(f, result, installedSkills, i + 1,
                               requiredNames, installPath, dryRun)
             ELSE SyncRemovals(
                    IF dryRun THEN f ELSE uninstallSkill(f, installed.name, installPath),
                    [result EXCEPT !.removed =
                        Append(@, [name |-> installed.name, version |-> installed.version,
                                   oldVersion |-> NoVersion, source |-> NoVersion])],
                    installedSkills, i + 1, requiredNames, installPath, dryRun)

\* "Install to each target agent's path", from target agent a on
RECURSIVE SyncAgents(_, _, _, _, _, _, _, _, _)
SyncAgents(f, result, targetAgents, a, resolvedSkills, installedSkills, cfg, dryRun, fault) ==
    IF a > Len(targetAgents) THEN [fs |-> f, result |-> result, ok |-> TRUE]
    ELSE LET installPath == getInstallPath(AGENT_PROFILES[targetAgents[a]], cfg)
             r0 == [result EXCEPT !.paths = Append(@, installPath)]
             f0 == IF dryRun THEN f ELSE MkdirInstallPath(f, installPath)
             m == SyncMatches(f0, r0, resolvedSkills, 1, installedSkills,
                              installPath, dryRun, fault)
             r == IF cfg.sync.auto_remove
                  THEN SyncRemovals(m.fs, m.result, installedSkills, 1,
                          {resolvedSkills[i].skill.name : i \in 1..Len(resolvedSkills)},
                          installPath, dryRun)
                  ELSE [fs |-> m.fs, result |-> m.result]
         IN  IF ~m.ok THEN [fs |-> m.fs, result |-> m.result, ok |-> FALSE]
             ELSE SyncAgents(r.fs, r.result, targetAgents, a + 1, resolvedSkills,
                             installedSkills, cfg, dryRun, fault)

\* syncSkills: the outcome, the result returned and the file system left behind
syncSkills(f, stack, installedSkills, options, cfg, agentProfile, availableSkills, fault) ==
    LET targetAgents == resolveTargetAgents(options.agent, cfg, agentProfile)
        resolvedSkills == FinalSkills(stack, cfg, availableSkills)
        done == SyncAgents(f, EmptyResult(targetAgents, <<>>), targetAgents, 1,
                           resolvedSkills, installedSkills, cfg, options.dryRun, fault)
    IN  IF done.ok
        THEN [outcome |-> "ok", result |-> done.result, fs |-> done.fs]
        ELSE [outcome |-> "install failed", result |-> EmptyResult(<<>>, <<>>),
              fs |-> done.fs]

\* installSkillByName: null when the registry has no such skill
installSkillByName(f, skillName, cfg, agentProfile, availableSkills, fault) ==
    LET k == FindIndex(availableSkills, skillName)
        inst == installSkill(f, availableSkills[k], getInstallPath(agentProfile, cfg), fault)
    IN  IF k = 0 THEN [outcome |-> "null", fs |-> f]
        ELSE IF inst.ok THEN [outcome |-> "ok", fs |-> inst.fs]
        ELSE [outcome |-> "install failed", fs |-> inst.fs]

-----------------------------------------------------------------------------
(* ConfigManager *)

DEFAULT_CONFIG ==
    [agent |-> [sync_both |-> FALSE],
     install_path |-> NoPath,
     agent_overrides |-> [a \in AgentIds |-> NoPath],
     skills |-> [always_include |-> <<>>, always_exclude |-> <<>>],
     sync |-> [auto_remove |-> FALSE, prompt_on_changes |-> TRUE]]

-----------------------------------------------------------------------------
(* The environment of one behaviour: configuration, project, faults *)

EmptyStack ==
    [languages |-> <<>>, frameworks |-> <<>>, databases |-> <<>>,
     infrastructure |-> <<>>, tools |-> <<>>]

\* the project a behaviour runs in: React, found in package.json
Stacks ==
    { [EmptyStack EXCEPT !.frameworks =
          << [id |-> "react", confidence |-> 950, source |-> "package.json"] >>] }

\* the configuration files a behaviour may run with: the default one, which
\* previews and waits for confirmation, and one that syncs immediately,
\* removes what is no longer required and excludes typescript
Configs ==
    { DEFAULT_CONFIG,
      [DEFAULT_CONFIG EXCEPT !.sync.prompt_on_changes = FALSE,
                             !.sync.auto_remove = TRUE,
                             !.skills.always_exclude = <<"typescript">>] }

EmptyFs ==
    [dirs |-> [p \in Paths |-> FALSE],
     skills |-> [p \in Paths |-> [n \in SkillNames |-> Absent]]]

\* the installation directories a behaviour may start with
InitialFs ==
    { [EmptyFs EXCEPT !.dirs[".claude/skills"] = TRUE,
                      !.skills[".claude/skills"]["typescript"] = "0.9.0"] }

Faults ==
    { NoFault,
      [name |-> "react", stage |-> "content"],
      [name |-> "typescript", stage |-> "resources"] }

\* the arguments of the tool calls: selective confirmations run without a
\* fault, unselective ones under every fault
ListArgs == {NoList, Given(<<"react">>)}
ConfirmCalls ==
    {[approved |-> a, rejected |-> r, fault |-> NoFault] : a \in ListArgs, r \in ListArgs}
        \cup {[approved |-> NoList, rejected |-> NoList, fault |-> f] : f \in Faults}
AgentArgs == {"auto"}
InstallCalls ==
    {[name |-> "react", fault |-> f] : f \in Faults}
        \cup {[name |-> "unknown-skill", fault |-> NoFault]}
UninstallNames == {"react"}
SetupCalls ==
    {[auto_install |-> TRUE, fault |-> f] : f \in Faults}
        \cup {[auto_install |-> FALSE, fault |-> NoFault]}
TickSteps == {6}

-----------------------------------------------------------------------------
(* The server: state, and one action per tool call *)

\* components rebuilt by initializeComponents at the start of a call
Profile == AGENT_PROFILES[DetectedAgent]
Installed == getInstalledSkills(fs, config, Profile)

\* the agent object of DEFAULT_CONFIG as the module defines it (force is
\* an optional property), and cache.refresh_interval_days
DefaultAgent == [mode |-> "auto", sync_both |-> FALSE, force |-> "undefined"]
RefreshIntervalDays == 7
NoConfigFile == [exists |-> FALSE, agent |-> DefaultAgent]

\* what loadConfig returns, as far as the agent preference and the cache are
\* concerned
Loaded(agent) == [agent |-> agent, refresh_interval_days |-> RefreshIntervalDays]

\* the record kept of the call that has just returned: the tool and its
\* arguments, how it ended, for confirm_sync the pending changes and the
\* creation time of the session it found, and for install_skill and
\* uninstall_skill the name asked for and whether the call found it (in the
\* catalog, in the installation directory), for sync_skills the agent
\* parameter with the agent and paths lists of the result, and for loadConfig
\* the configuration returned
NoCall ==
    [op |-> "none", mode |-> "none", id |-> 0,
     approved |-> NoList, rejected |-> NoList,
     changes |-> <<>>, created |-> 0, outcome |-> "none",
     name |-> "none", present |-> FALSE,
     agent |-> NoAgent, targets |-> <<>>, paths |-> <<>>,
     loaded |-> Loaded(DefaultAgent)]

\* a skill directory: whether it exists, the content of its SKILL.md, and the
\* content of each file of its resources directory ("none": no such file)
ResourceNames == {"template.md"}
NoDir == [exists |-> FALSE, skillMd |-> "none", resources |-> [r \in ResourceNames |-> "none"]]
NoSkillFiles == [n \in SkillNames |-> NoDir]

\* cachedBundles when it is null, and a bundles-cache.json that cannot be read.
\* obtained is the day the copy in memory was fetched; the client does not
\* keep it, it is recorded here for the properties to refer to
NoBundles == [loaded |-> FALSE, bundles |-> <<>>, obtained |-> 0]
NoBundlesCache == [readable |-> FALSE, fetched_at |-> 0, bundles |-> <<>>]

\* no project-context.yaml, and no confirmSync call in flight
NoContext == [exists |-> FALSE, include_skills |-> <<>>, exclude_skills |-> <<>>]
NoContextFile ==
    /\ context = NoContext
    /\ inflight = <<>>

\* the components that are not under study: as the process finds them
Untouched ==
    /\ skillFiles = NoSkillFiles
    /\ cachedBundles = NoBundles
    /\ bundlesCache = NoBundlesCache
    /\ defaultAgent = DefaultAgent
    /\ configFile = NoConfigFile
    /\ NoContextFile

\* a process whose registry client is not under study: no registry is
\* configured and no cache file exists
EmptyIndex == [version |-> "1.0", skills |-> <<>>]
NoCacheFile == [readable |-> FALSE, source |-> "", fetched_at |-> 0, index |-> EmptyIndex]
CacheFile(url, date, index) ==
    [readable |-> TRUE, source |-> url, fetched_at |-> date, index |-> index]
NoRegistryClient ==
    /\ registries = <<>>
    /\ cacheFiles = [url \in {} |-> NoCacheFile]
    /\ today = 0

\* new Map(): the session table of a process that has just started
NoSessions == [id \in {} |-> NoCall]

Init ==
    /\ catalog = Registry
    /\ resolving = NotResolving
    /\ config \in Configs
    /\ detectedStack \in Stacks
    /\ fs \in InitialFs
    /\ pendingSyncs = NoSessions
    /\ nextId = 0
    /\ now = 0
    /\ last = NoCall
    /\ confirmed = {}
    /\ NoRegistryClient
    /\ localStack = EmptyStack
    /\ Untouched

\* time passes between two calls
Tick(minutes) ==
    /\ now + minutes <= MaxTime
    /\ now' = now + minutes
    /\ last' = [NoCall EXCEPT !.op = "tick"]
    /\ UNCHANGED <<outside, catalog, config, detectedStack, fs, pendingSyncs, nextId, confirmed>>

\* the server process is restarted: the session table is lost, the files stay
Restart ==
    /\ pendingSyncs' = NoSessions
    /\ last' = [NoCall EXCEPT !.op = "restart"]
    /\ UNCHANGED <<outside, catalog, config, detectedStack, fs, nextId, now, confirmed>>

\* the part of a handler that calls previewSync and returns the preview
Preview(op, mode) ==
    /\ nextId < MaxPreviews
    /\ \E pr \in {previewSync(pendingSyncs, detectedStack, Installed, config, Profile,
                                catalog, nextId + 1, now)} :
           /\ pendingSyncs' = pr.pendingSyncs
           /\ last' = [NoCall EXCEPT !.op = op, !.mode = mode, !.id = nextId + 1,
                                     !.outcome = "ok"]
    /\ nextId' = nextId + 1
    /\ UNCHANGED <<outside, catalog, config, detectedStack, fs, now, confirmed>>

\* a dry run served by syncSkills with dryRun: true instead of previewSync
SyncSkillsDryRunNoSession ==
    /\ last' = [NoCall EXCEPT !.op = "sync_skills", !.mode = "dry_run", !.outcome = "ok"]
    /\ UNCHANGED <<outside, catalog, config, detectedStack, fs, pendingSyncs, nextId, now, confirmed>>

\* sync_skills with dry_run = true
SyncSkillsDryRun ==
    Preview("sync_skills", "dry_run")

\* sync_skills with skip_confirmation = true, or with prompt_on_changes off
SyncSkillsImmediate(skip_confirmation, agent, fault) ==
    /\ skip_confirmation \/ ~config.sync.prompt_on_changes
    /\ \E r \in {syncSkills(fs, detectedStack, Installed, [dryRun |-> FALSE, agent |-> agent],
                              config, Profile, catalog, fault)} :
           /\ fs' = r.fs
           /\ last' = [NoCall EXCEPT !.op = "sync_skills", !.mode = "immediate",
                                     !.outcome = r.outcome, !.agent = agent,
                                     !.targets = r.result.agent,
                                     !.paths = r.result.paths]
    /\ UNCHANGED <<outside, catalog, config, detectedStack, pendingSyncs, nextId, now, confirmed>>

\* sync_skills in its default mode: preview, then wait for confirm_sync
SyncSkillsConfirmFirst ==
    /\ config.sync.prompt_on_changes
    /\ Preview("sync_skills", "confirm_first")

\* preview_sync
PreviewSyncTool ==
    Preview("preview_sync", "preview")

\* a syncSkills that ignores its dryRun option
SyncSkillsApiDryRunApplies(agent) ==
    /\ \E r \in {syncSkills(fs, detectedStack, Installed, [dryRun |-> FALSE, agent |-> agent],
                              config, Profile, catalog, NoFault)} :
           /\ fs' = r.fs
           /\ last' = [NoCall EXCEPT !.op = "syncSkills", !.mode = "dry_run",
                                     !.outcome = r.outcome]
    /\ UNCHANGED <<outside, catalog, config, detectedStack, pendingSyncs, nextId, now, confirmed>>

\* SkillInstaller.syncSkills called with dryRun: true
SyncSkillsApiDryRun(agent) ==
    /\ \E r \in {syncSkills(fs, detectedStack, Installed, [dryRun |-> TRUE, agent |-> agent],
                              config, Profile, catalog, NoFault)} :
           /\ fs' = r.fs
           /\ last' = [NoCall EXCEPT !.op = "syncSkills", !.mode = "dry_run",
                                     !.outcome = r.outcome]
    /\ UNCHANGED <<outside, catalog, config, detectedStack, pendingSyncs, nextId, now, confirmed>>

\* confirm_sync
ConfirmSyncTool(previewId, approvedSkills, rejectedSkills, fault) ==
    /\ \E c \in {confirmSync(fs, pendingSyncs, previewId, approvedSkills, rejectedSkills,
                               Profile, fault)} :
           /\ fs' = c.fs
           /\ pendingSyncs' = c.pendingSyncs
           /\ last' = [NoCall EXCEPT
                         !.op = "confirm_sync", !.id = previewId,
                         !.approved = approvedSkills, !.rejected = rejectedSkills,
                         !.changes = IF HasPending(pendingSyncs, previewId)
                                     THEN pendingSyncs[previewId].preview.pending_changes
                                     ELSE <<>>,
                         !.created = IF HasPending(pendingSyncs, previewId)
                                     THEN pendingSyncs[previewId].timestamp
                                     ELSE 0,
                         !.outcome = c.outcome]
           /\ confirmed' = IF c.outcome = "ok" THEN confirmed \cup {previewId} ELSE confirmed
    /\ UNCHANGED <<outside, catalog, config, detectedStack, nextId, now>>

\* install_skill: a null from installSkillByName is answered with
\* { success: false, error: 'Skill "..." not found in registry' }
InstallSkillTool(skillName, fault) ==
    /\ \E r \in {installSkillByName(fs, skillName, config, Profile, catalog, fault)} :
           /\ fs' = r.fs
           /\ last' = [NoCall EXCEPT !.op = "install_skill",
                                     !.name = skillName,
                                     !.present = (FindIndex(catalog, skillName) # 0),
                                     !.outcome = IF r.outcome = "null"
                                                 THEN "not found in registry"
                                                 ELSE r.outcome]
    /\ UNCHANGED <<outside, catalog, config, detectedStack, pendingSyncs, nextId, now, confirmed>>

\* whether install path p holds a directory named skillName
HasDir(f, p, skillName) == skillName \in SkillNames /\ f.skills[p][skillName] # Absent

\* an uninstall_skill that answers "not found" when there is no such directory
UninstallSkillToolNotFound(skillName) ==
    /\ LET installPath == IF config.install_path # NoPath THEN config.install_path
                          ELSE Profile.projectSkillPaths[1]
       IN  /\ fs' = uninstallSkill(fs, skillName, installPath)
           /\ last' = [NoCall EXCEPT !.op = "uninstall_skill",
                                     !.name = skillName,
                                     !.present = HasDir(fs, installPath, skillName),
                                     !.outcome = IF HasDir(fs, installPath, skillName)
                                                 THEN "ok" ELSE "not found"]
    /\ UNCHANGED <<outside, catalog, config, detectedStack, pendingSyncs, nextId, now, confirmed>>

\* uninstall_skill: { success: true, uninstalled: skill_name } whatever
\* uninstallSkill found
UninstallSkillTool(skillName) ==
    /\ LET installPath == IF config.install_path # NoPath THEN config.install_path
                          ELSE Profile.projectSkillPaths[1]
       IN  /\ fs' = uninstallSkill(fs, skillName, installPath)
           /\ last' = [NoCall EXCEPT !.op = "uninstall_skill",
                                     !.name = skillName,
                                     !.present = HasDir(fs, installPath, skillName),
                                     !.outcome = "ok"]
    /\ UNCHANGED <<outside, catalog, config, detectedStack, pendingSyncs, nextId, now, confirmed>>

\* the profile reset_skills uses for an agent id: getAgentProfile falls back to
\* the generic profile, whose only project skill path is .github/skills
ResetPaths(agentId) ==
    IF agentId \in AgentIds THEN Range(AGENT_PROFILES[agentId].projectSkillPaths)
    ELSE {".github/skills"}

\* reset_skills with clear_config and clear_cache left at their default, false:
\* fs.rm of every project skill path of every agent to reset
ResetSkillsTool(confirm, all_agents) ==
    /\ IF ~confirm
       THEN /\ last' = [NoCall EXCEPT !.op = "reset_skills", !.outcome = "Reset cancelled"]
            /\ UNCHANGED fs
       ELSE LET agentsToReset == IF all_agents
                                 THEN {"claude", "copilot", "codex", "generic"}
                                 ELSE {DetectedAgent}
                removed == UNION {ResetPaths(a) : a \in agentsToReset}
            IN  /\ fs' = [dirs |-> [p \in Paths |-> fs.dirs[p] /\ p \notin removed],
                          skills |-> [p \in Paths |->
                                        IF p \in removed
                                        THEN [n \in SkillNames |-> Absent]
                                        ELSE fs.skills[p]]]
                /\ last' = [NoCall EXCEPT !.op = "reset_skills", !.outcome = "ok",
                                          !.mode = IF all_agents THEN "all_agents"
                                                   ELSE "detected agent"]
    /\ UNCHANGED <<outside, catalog, config, detectedStack, pendingSyncs, nextId, now, confirmed>>

\* setup: the skills recommended with high confidence are those not installed
\* one of whose trigger packages is a detected technology id (the catalog
\* entries declare no file triggers and their tags name no technology)
RECURSIVE Recommended(_, _, _)
Recommended(availableSkills, detectedTech, installedNames) ==
    IF availableSkills = <<>> THEN <<>>
    ELSE LET skill == Head(availableSkills)
             hit == \E k \in 1..Len(skill.triggers.packages) :
                        ToLowerCase(skill.triggers.packages[k]) \in detectedTech
         IN  (IF skill.name \notin installedNames /\ hit THEN <<skill.name>> ELSE <<>>)
                \o Recommended(Tail(availableSkills), detectedTech, installedNames)

\* the auto_install loop of setup, from the first name of toInstall on
RECURSIVE AutoInstall(_, _, _)
AutoInstall(f, toInstall, fault) ==
    IF toInstall = <<>> THEN [fs |-> f, outcome |-> "ok"]
    ELSE LET r == installSkillByName(f, Head(toInstall), config, Profile, catalog, fault)
         IN  IF r.outcome = "install failed" THEN r
             ELSE AutoInstall(r.fs, Tail(toInstall), fault)

\* setup
SetupTool(auto_install, fault) ==
    /\ LET detectedTech == {ToLowerCase(AllDetected(detectedStack)[i].id) :
                                i \in 1..Len(AllDetected(detectedStack))}
           toInstall == IF auto_install
                        THEN Recommended(catalog, detectedTech,
                                         {Installed[i].name : i \in 1..Len(Installed)})
                        ELSE <<>>
       IN  \E r \in {AutoInstall(fs, toInstall, fault)} :
           /\ fs' = r.fs
           /\ last' = [NoCall EXCEPT !.op = "setup", !.outcome = r.outcome,
                                     !.mode = IF auto_install THEN "auto_install" ELSE "none"]
    /\ UNCHANGED <<outside, catalog, config, detectedStack, pendingSyncs, nextId, now, confirmed>>

Next ==
    \/ \E minutes \in TickSteps : Tick(minutes)
    \/ Restart
    \/ SyncSkillsDryRun
    \/ \E skip \in BOOLEAN, agent \in AgentArgs, fault \in Faults :
            SyncSkillsImmediate(skip, agent, fault)
    \/ SyncSkillsConfirmFirst
    \/ PreviewSyncTool
    \/ \E agent \in AgentArgs : SyncSkillsApiDryRun(agent)
    \/ \E previewId \in 1..MaxPreviews, call \in ConfirmCalls :
            ConfirmSyncTool(previewId, call.approved, call.rejected, call.fault)
    \/ \E call \in InstallCalls : InstallSkillTool(call.name, call.fault)
    \/ \E skillName \in UninstallNames : UninstallSkillTool(skillName)
    \/ \E confirm \in BOOLEAN, all_agents \in BOOLEAN : ResetSkillsTool(confirm, all_agents)
    \/ \E call \in SetupCalls : SetupTool(call.auto_install, call.fault)

Spec == Init /\ [][Next]_vars

TypeOK ==
    /\ config \in Configs
    /\ detectedStack \in Stacks
    /\ fs.dirs \in [Paths -> BOOLEAN]
    /\ fs.skills \in [Paths -> [SkillNames -> DirStates]]
    /\ DOMAIN pendingSyncs \subseteq 1..nextId
    /\ nextId \in 0..MaxPreviews
    /\ now \in 0..MaxTime
    /\ confirmed \subseteq 1..nextId

-----------------------------------------------------------------------------
(* The installer under every policy: the same tool calls, started from a     *)
(* wider choice of catalog, configuration, project and installation         *)
(* directory                                                                 *)

\* the catalog of the installer's tests: nextjs needs typescript and react
MockSkills ==
    Registry \o
    << [name |-> "nextjs", version |-> "1.0.0", dependencies |-> <<"typescript", "react">>,
        triggers |-> [packages |-> <<"next">>, manual_only |-> FALSE]] >>

\* a catalog whose two entries depend on each other
CyclicCatalog ==
    << [name |-> "typescript", version |-> "1.0.0", dependencies |-> <<"react">>,
        triggers |-> [packages |-> <<"typescript">>, manual_only |-> FALSE]],
       [name |-> "react", version |-> "1.0.0", dependencies |-> <<"typescript">>,
        triggers |-> [packages |-> <<"react">>, manual_only |-> FALSE]] >>

Catalogs == {Registry, MockSkills, CyclicCatalog}

Detected(id) == [id |-> id, confidence |-> 950, source |-> "package.json"]

\* the projects: nothing detected, React, Next.js, or TypeScript alone
PolicyStacks ==
    { EmptyStack,
      [EmptyStack EXCEPT !.frameworks = <<Detected("react")>>],
      [EmptyStack EXCEPT !.frameworks = <<Detected("nextjs")>>],
      [EmptyStack EXCEPT !.languages = <<Detected("typescript")>>] }

\* the configurations: every combination of the removal policy with an
\* always_include and an always_exclude list of at most one name
IncludeLists == {<<>>, <<"react">>, <<"nextjs">>}
ExcludeLists == {<<>>, <<"typescript">>, <<"react">>}
PolicyConfigs ==
    { [DEFAULT_CONFIG EXCEPT !.sync.auto_remove = r,
                             !.skills.always_include = i,
                             !.skills.always_exclude = e] :
        r \in BOOLEAN, i \in IncludeLists, e \in ExcludeLists }

\* the installation directories: none, an outdated typescript, or typescript
\* and react up to date
PolicyFs ==
    InitialFs \cup
    { EmptyFs,
      [EmptyFs EXCEPT !.dirs[".claude/skills"] = TRUE,
                      !.skills[".claude/skills"]["typescript"] = "1.0.0",
                      !.skills[".claude/skills"]["react"] = "1.0.0"] }

PolicyFaults == {NoFault, [name |-> "typescript", stage |-> "resources"]}
PolicyRejections == {NoList, Given(<<"react">>)}

PolicyInit ==
    /\ catalog \in Catalogs
    /\ resolving = NotResolving
    /\ config \in PolicyConfigs
    /\ detectedStack \in PolicyStacks
    /\ fs \in PolicyFs
    /\ pendingSyncs = NoSessions
    /\ nextId = 0
    /\ now = 0
    /\ last = NoCall
    /\ confirmed = {}
    /\ NoRegistryClient
    /\ localStack = EmptyStack
    /\ Untouched

PolicyNext ==
    \/ PreviewSyncTool
    \/ \E fault \in PolicyFaults : SyncSkillsImmediate(TRUE, "auto", fault)
    \/ \E previewId \in 1..MaxPreviews, rejected \in PolicyRejections :
            ConfirmSyncTool(previewId, NoList, rejected, NoFault)

PolicySpec == PolicyInit /\ [][PolicyNext]_vars

-----------------------------------------------------------------------------
(* resolveDependencies, one iteration of its while loop at a time, on every  *)
(* catalog of two or three skills whose dependency lists hold at most two    *)
(* names: chains, diamonds, cycles, skills that depend on themselves, and    *)
(* dependencies the catalog does not have                                    *)

DepLists ==
    {<<>>} \cup {<<a>> : a \in SkillNames}
           \cup {ab \in SkillNames \X SkillNames : ab[1] # ab[2]}

Entry(name, dependencies) ==
    [name |-> name, version |-> "1.0.0", dependencies |-> dependencies,
     triggers |-> [packages |-> <<name>>, manual_only |-> FALSE]]

ResolveCatalogs ==
    {<<Entry("typescript", a), Entry("react", b)>> : a \in DepLists, b \in DepLists}
        \cup {<<Entry("typescript", a), Entry("react", b), Entry("nextjs", c)>> :
                    a \in DepLists, b \in DepLists, c \in DepLists}

\* the match detection produces for a catalog entry
DetectedMatch(skill) ==
    [skill |-> skill, matchedBy |-> "detected: package.json",
     confidence |-> 950, source |-> "discovery"]

\* the matches resolveDependencies may be called with: none, one, or two of
\* the catalog's entries in either order
ResolveInputs(availableSkills) ==
    {<<>>} \cup {<<DetectedMatch(availableSkills[i])>> : i \in DOMAIN availableSkills}
           \cup {<<DetectedMatch(availableSkills[ij[1]]), DetectedMatch(availableSkills[ij[2]])>> :
                    ij \in {p \in (DOMAIN availableSkills) \X (DOMAIN availableSkills) :
                                p[1] # p[2]}}

ResolveInit ==
    /\ catalog \in ResolveCatalogs
    /\ resolving \in {[NotResolving EXCEPT !.matches = m] : m \in ResolveInputs(catalog)}
    /\ config = DEFAULT_CONFIG
    /\ detectedStack = EmptyStack
    /\ fs = EmptyFs
    /\ pendingSyncs = NoSessions
    /\ nextId = 0
    /\ now = 0
    /\ last = NoCall
    /\ confirmed = {}
    /\ NoRegistryClient
    /\ localStack = EmptyStack
    /\ Untouched

installerVars == <<config, detectedStack, fs, pendingSyncs, nextId, now, last, confirmed>>

\* "Add initial matches" and const toProcess = [...matches]
ResolveStart ==
    /\ resolving.pc = "idle"
    /\ resolving' = [pc |-> "loop", matches |-> resolving.matches,
                     resolved |-> MapSetAll(<<>>, resolving.matches),
                     toProcess |-> resolving.matches]
    /\ UNCHANGED <<installerVars, catalog, registries, cacheFiles, today, localStack, aside>>

\* one iteration of while (toProcess.length > 0)
ResolveStep ==
    /\ resolving.pc = "loop"
    /\ resolving.toProcess # <<>>
    /\ LET toProcess == resolving.toProcess
           current == toProcess[Len(toProcess)]
           rest == SubSeq(toProcess, 1, Len(toProcess) - 1)
           r == AddDependencies(resolving.resolved, rest, current, 1, catalog)
       IN  resolving' = [resolving EXCEPT !.resolved = r.resolved,
                                          !.toProcess = r.toProcess]
    /\ UNCHANGED <<installerVars, catalog, registries, cacheFiles, today, localStack, aside>>

\* return Array.from(resolved.values())
ResolveReturn ==
    /\ resolving.pc = "loop"
    /\ resolving.toProcess = <<>>
    /\ resolving' = [resolving EXCEPT !.pc = "done"]
    /\ UNCHANGED <<installerVars, catalog, registries, cacheFiles, today, localStack, aside>>

ResolveNext == ResolveStart \/ ResolveStep \/ ResolveReturn

\* the call runs on its own: nothing can keep the loop from its next iteration
ResolveSpec == ResolveInit /\ [][ResolveNext]_vars /\ WF_vars(ResolveNext)

-----------------------------------------------------------------------------
(* RegistryClient: the catalog aggregated from the registries, each served   *)
(* from its cache file or fetched                                            *)

PrimaryUrl == "https://github.com/anthropics/skills"
SecondaryUrl == "https://github.com/myorg/skills"
RegistryUrls == {PrimaryUrl, SecondaryUrl}

\* config.registry, in the order of the configuration file
RegistryConfigs ==
    { << [url |-> PrimaryUrl, priority |-> 1], [url |-> SecondaryUrl, priority |-> 2] >>,
      << [url |-> SecondaryUrl, priority |-> 2], [url |-> PrimaryUrl, priority |-> 1] >> }

\* Array.prototype.sort((a, b) => a.priority - b.priority): a stable sort
RECURSIVE InsertByPriority(_, _)
InsertByPriority(sorted, registry) ==
    IF sorted = <<>> THEN <<registry>>
    ELSE IF registry.priority < Head(sorted).priority THEN <<registry>> \o sorted
    ELSE <<Head(sorted)>> \o InsertByPriority(Tail(sorted), registry)

\* the registries in the order they were configured
UnsortedRegistries(configured) == configured

RECURSIVE SortByPriority(_)
SortByPriority(configured) ==
    IF configured = <<>> THEN <<>>
    ELSE InsertByPriority(SortByPriority(SubSeq(configured, 1, Len(configured) - 1)),
                          configured[Len(configured)])

\* an entry of a registry index as parseRegistryYaml returns it
IndexSkill(url, name, version) ==
    [name |-> name, path |-> url \o "/tree/main/skills/" \o name, version |-> version,
     dependencies |-> <<>>, triggers |-> [packages |-> <<name>>, manual_only |-> FALSE]]

\* what fetchRegistryIndex may return for a registry: the primary one
\* publishes typescript 1.0.0, later typescript 1.1.0 and react; the secondary
\* one typescript 2.0.0 and react, later react alone
RemoteIndexes(url) ==
    IF url = PrimaryUrl
    THEN { [version |-> "1.0", skills |-> <<IndexSkill(url, "typescript", "1.0.0")>>],
           [version |-> "1.0", skills |-> <<IndexSkill(url, "typescript", "1.1.0"),
                                            IndexSkill(url, "react", "1.0.0")>>] }
    ELSE { [version |-> "1.0", skills |-> <<IndexSkill(url, "typescript", "2.0.0"),
                                            IndexSkill(url, "react", "2.0.0")>>],
           [version |-> "1.0", skills |-> <<IndexSkill(url, "react", "2.0.0")>>] }

\* fetchRegistryIndex throws: the registry is unreachable or its URL is not
\* one of GitHub (what its requests are answered with is fetchRegistryIndex,
\* further down)
Throws == [threw |-> TRUE, index |-> EmptyIndex]
Answers(url) == {Throws} \cup {[threw |-> FALSE, index |-> index] : index \in RemoteIndexes(url)}

\* what the registries answer during one getAllSkills call
RemoteAnswers ==
    {[url \in RegistryUrls |-> IF url = PrimaryUrl THEN a ELSE b] :
        a \in Answers(PrimaryUrl), b \in Answers(SecondaryUrl)}

\* an isCacheValid that still accepts a cache of exactly the maximal age
isCacheValidInclusive(fetched_at, date) == date - fetched_at <= CacheMaxAgeDays

isCacheValid(fetched_at, date) == date - fetched_at < CacheMaxAgeDays

\* a getRegistryIndex that writes the cache file before it knows whether the
\* fetch succeeded
getRegistryIndexSavesFirst(registry, forceRefresh, cache, answers, date) ==
    LET cached == cache[registry.url]
        saved == [cache EXCEPT ![registry.url] =
                     CacheFile(registry.url, date, answers[registry.url].index)]
    IN  IF ~forceRefresh /\ cached.readable /\ isCacheValid(cached.fetched_at, date)
        THEN [threw |-> FALSE, fetched |-> FALSE, index |-> cached.index, cache |-> cache]
        ELSE [threw |-> answers[registry.url].threw, fetched |-> TRUE,
              index |-> answers[registry.url].index, cache |-> saved]

\* getRegistryIndex: the cached index if it may be used; otherwise the fetched
\* one, saved to the cache file; a failed fetch throws and saves nothing.
\* loadFromCache returns null for a file that is missing or unreadable.
getRegistryIndex(registry, forceRefresh, cache, answers, date) ==
    LET cached == cache[registry.url]
    IN  IF ~forceRefresh /\ cached.readable /\ isCacheValid(cached.fetched_at, date)
        THEN [threw |-> FALSE, fetched |-> FALSE, index |-> cached.index, cache |-> cache]
        ELSE IF answers[registry.url].threw
        THEN [threw |-> TRUE, fetched |-> TRUE, index |-> EmptyIndex, cache |-> cache]
        ELSE [threw |-> FALSE, fetched |-> TRUE, index |-> answers[registry.url].index,
              cache |-> [cache EXCEPT ![registry.url] =
                           CacheFile(registry.url, date, answers[registry.url].index)]]

\* skill.path.startsWith('http') ? skill.path : `${registry.url}/${skill.path}`
ResolvedPath(registry, skill) ==
    IF Len(skill.path) >= 4 /\ SubSeq(skill.path, 1, 4) = "http" THEN skill.path
    ELSE registry.url \o "/" \o skill.path

\* the loop over index.skills: seenSkills holds the names of allSkills
RECURSIVE AddUnseen(_, _, _)
AddUnseen(allSkills, registry, skills) ==
    IF skills = <<>> THEN allSkills
    ELSE LET skill == Head(skills)
             seen == \E i \in 1..Len(allSkills) : allSkills[i].name = skill.name
         IN  AddUnseen(IF seen THEN allSkills
                       ELSE Append(allSkills,
                                   [skill EXCEPT !.path = ResolvedPath(registry, skill)]),
                       registry, Tail(skills))

\* the report of a getAllSkills call: what it returns or that it threw, the
\* cache files it leaves, the registries it fetched and failed to fetch, and
\* the index each registry contributed
NoReport(cache) ==
    [returned |-> TRUE, allSkills |-> <<>>, cache |-> cache, fetched |-> {}, failed |-> {},
     served |-> [url \in RegistryUrls |-> EmptyIndex]]

\* a loop over this.registries without the try / catch: the first registry
\* that fails ends the call
RECURSIVE AllSkillsFromUncaught(_, _, _, _, _, _)
AllSkillsFromUncaught(r, regs, forceRefresh, answers, date, report) ==
    IF r > Len(regs) THEN report
    ELSE LET got == getRegistryIndex(regs[r], forceRefresh, report.cache, answers, date)
             fetched == IF got.fetched THEN report.fetched \cup {regs[r].url}
                        ELSE report.fetched
         IN  IF got.threw
             THEN [report EXCEPT !.returned = FALSE, !.allSkills = <<>>,
                                 !.cache = got.cache,
                                 !.fetched = fetched, !.failed = @ \cup {regs[r].url}]
             ELSE AllSkillsFromUncaught(r + 1, regs, forceRefresh, answers, date,
                    [report EXCEPT !.allSkills = AddUnseen(@, regs[r], got.index.skills),
                                   !.cache = got.cache, !.fetched = fetched,
                                   !.served[regs[r].url] = got.index])

\* the loop over this.registries, from registry r on
RECURSIVE AllSkillsFrom(_, _, _, _, _, _)
AllSkillsFrom(r, regs, forceRefresh, answers, date, report) ==
    IF r > Len(regs) THEN report
    ELSE LET got == getRegistryIndex(regs[r], forceRefresh, report.cache, answers, date)
             fetched == IF got.fetched THEN report.fetched \cup {regs[r].url}
                        ELSE report.fetched
         IN  AllSkillsFrom(r + 1, regs, forceRefresh, answers, date,
                IF got.threw
                THEN [report EXCEPT !.cache = got.cache, !.fetched = fetched,
                                    !.failed = @ \cup {regs[r].url}]
                ELSE [report EXCEPT !.allSkills = AddUnseen(@, regs[r], got.index.skills),
                                    !.cache = got.cache, !.fetched = fetched,
                                    !.served[regs[r].url] = got.index])

getAllSkills(regs, forceRefresh, cache, answers, date) ==
    AllSkillsFrom(1, regs, forceRefresh, answers, date, NoReport(cache))

\* the record kept of a getAllSkills call
FetchCall(forceRefresh, answers, report) ==
    [op |-> "getAllSkills", forceRefresh |-> forceRefresh, answers |-> answers,
     fetched |-> report.fetched, failed |-> report.failed, served |-> report.served,
     outcome |-> IF report.returned THEN "returned" ELSE "threw"]

RegistryInit ==
    /\ \E configured \in RegistryConfigs : registries = SortByPriority(configured)
    /\ cacheFiles = [url \in RegistryUrls |-> NoCacheFile]
    /\ today = 0
    /\ localStack = EmptyStack
    /\ Untouched
    /\ catalog = <<>>
    /\ resolving = NotResolving
    /\ config = DEFAULT_CONFIG
    /\ detectedStack = EmptyStack
    /\ fs = EmptyFs
    /\ pendingSyncs = NoSessions
    /\ nextId = 0
    /\ now = 0
    /\ last = NoCall
    /\ confirmed = {}

\* a day passes between two calls
DayPasses ==
    /\ today < MaxDay
    /\ today' = today + 1
    /\ last' = [NoCall EXCEPT !.op = "tick"]
    /\ UNCHANGED <<config, detectedStack, fs, pendingSyncs, nextId, now, confirmed,
                   catalog, resolving, registries, cacheFiles, localStack, aside>>

\* registryClient.getAllSkills(forceRefresh)
GetAllSkills(forceRefresh, answers) ==
    /\ \E report \in {getAllSkills(registries, forceRefresh, cacheFiles, answers, today)} :
           /\ catalog' = report.allSkills
           /\ cacheFiles' = report.cache
           /\ last' = FetchCall(forceRefresh, answers, report)
    /\ UNCHANGED <<config, detectedStack, fs, pendingSyncs, nextId, now, confirmed,
                   resolving, registries, today, localStack, aside>>

RegistryNext ==
    \/ DayPasses
    \/ \E forceRefresh \in BOOLEAN, answers \in RemoteAnswers :
            GetAllSkills(forceRefresh, answers)

RegistrySpec == RegistryInit /\ [][RegistryNext]_vars

-----------------------------------------------------------------------------
(* fetchRegistryIndex request by request, for a registry that is a GitHub    *)
(* repository: registry.yaml first, then the listing of the skills directory *)

\* how a request ends: the fetch rejects, the response has an error status, or
\* the document is served
Unreachable == "unreachable"
ErrorStatus == "error status"
Delivered == "ok"

\* what the origin of a registry does during one call: how the request for
\* registry.yaml and the one for the contents of skills/ end, and the index
\* the served documents amount to
Origin(yaml, contents, index) == [yaml |-> yaml, contents |-> contents, index |-> index]
OriginIndex(url) == [version |-> "1.0", skills |-> <<IndexSkill(url, "typescript", "1.0.0")>>]

\* the primary registry ends its requests in every way, the secondary one
\* serves its registry.yaml or cannot be reached
Origins(url) ==
    IF url = PrimaryUrl
    THEN {Origin(Delivered, Delivered, OriginIndex(url)),
          Origin(ErrorStatus, Delivered, OriginIndex(url)),
          Origin(ErrorStatus, ErrorStatus, EmptyIndex),
          Origin(ErrorStatus, Unreachable, EmptyIndex),
          Origin(Unreachable, Unreachable, EmptyIndex)}
    ELSE {Origin(Delivered, Delivered, OriginIndex(url)),
          Origin(Unreachable, Unreachable, EmptyIndex)}
RemoteOrigins ==
    {[url \in RegistryUrls |-> IF url = PrimaryUrl THEN a ELSE b] :
        a \in Origins(PrimaryUrl), b \in Origins(SecondaryUrl)}

\* scanSkillsDirectory: a rejected fetch of the listing propagates, an error
\* status is answered with an index without skills
scanSkillsDirectory(origin) ==
    IF origin.contents = Unreachable THEN Throws
    ELSE IF origin.contents = ErrorStatus THEN [threw |-> FALSE, index |-> EmptyIndex]
    ELSE [threw |-> FALSE, index |-> origin.index]

\* fetchRegistryIndex: registry.yaml if it is served; a rejected fetch is
\* caught and an error status skipped, and the skills directory is scanned
fetchRegistryIndex(origin) ==
    IF origin.yaml = Delivered THEN [threw |-> FALSE, index |-> origin.index]
    ELSE scanSkillsDirectory(origin)

\* the source could not be fetched: neither registry.yaml nor the listing of
\* its skills directory was obtained
FetchFailed(origin) == origin.yaml # Delivered /\ origin.contents # Delivered

\* registryClient.getAllSkills(forceRefresh) with the origins behaving as given
GetAllSkillsFromOrigins(forceRefresh, origins) ==
    /\ LET answers == [url \in RegistryUrls |-> fetchRegistryIndex(origins[url])]
           report == getAllSkills(registries, forceRefresh, cacheFiles, answers, today)
       IN  /\ catalog' = report.allSkills
           /\ cacheFiles' = report.cache
           /\ last' = [origins |-> origins] @@ FetchCall(forceRefresh, answers, report)
    /\ UNCHANGED <<config, detectedStack, fs, pendingSyncs, nextId, now, confirmed,
                   resolving, registries, today, localStack, aside>>

FetchNext ==
    \/ DayPasses
    \/ \E forceRefresh \in BOOLEAN, origins \in RemoteOrigins :
            GetAllSkillsFromOrigins(forceRefresh, origins)

FetchSpec == RegistryInit /\ [][FetchNext]_vars

-----------------------------------------------------------------------------
(* The detectors: the merge of one detection into a stack by each of the two  *)
(* addDetection methods, and the three tiers of EnhancedProjectDetector.detect *)
(* A detection is [id, version, confidence, source]; its optional name is     *)
(* left out, and its source keeps the tier without the package or file.       *)

\* the optional version property of a detection: a version string, or
NoProperty == "no property"   \* the object has no such property
Undefined == "undefined"    \* the property is there and holds undefined

\* a value of the version property that an if () takes for true
Truthy(version) == version \notin {NoProperty, Undefined}

\* Object.assign(existing, detection): every property the detection has is
\* copied, the others keep the value existing had
ObjectAssign(existing, detection) ==
    [id |-> detection.id,
     version |-> IF detection.version = NoProperty THEN existing.version
                 ELSE detection.version,
     confidence |-> detection.confidence,
     source |-> detection.source]

\* a find that never finds anything
FindDetectionNone(list, id) == 0

\* stack[category].find(d => d.id === id), as an index: 0 when there is none
FindDetection(list, id) ==
    IF \E i \in 1..Len(list) : list[i].id = id
    THEN CHOOSE i \in 1..Len(list) : list[i].id = id /\ \A j \in 1..(i-1) : list[j].id # id
    ELSE 0

\* an addDetection that does not look for an entry of the same id
addDetectionPush(stack, category, detection) ==
    [stack EXCEPT ![category] = Append(@, detection)]

\* an addDetection that never replaces an entry: the detection that arrived
\* first stays as it is
addDetectionKeepFirst(stack, category, detection) ==
    IF FindDetection(stack[category], detection.id) = 0
    THEN [stack EXCEPT ![category] = Append(@, detection)]
    ELSE stack

\* EnhancedProjectDetector.addDetection
addDetection(stack, category, detection) ==
    LET i == FindDetection(stack[category], detection.id)
    IN  IF i = 0 THEN [stack EXCEPT ![category] = Append(@, detection)]
        ELSE LET existing == stack[category][i]
                 assigned == IF detection.confidence > existing.confidence
                             THEN ObjectAssign(existing, detection)
                             ELSE existing
             IN  [stack EXCEPT ![category][i] =
                    IF Truthy(detection.version) /\ ~Truthy(assigned.version)
                    THEN [assigned EXCEPT !.version = detection.version]
                    ELSE assigned]

\* the entries of SKILL_TRIGGERS for the three skills, by category
SKILL_TRIGGERS ==
    [typescript |-> "languages", react |-> "frameworks", nextjs |-> "frameworks"]

\* an addDetection that lets the detection that arrives last replace the entry
ProjectDetector_addDetectionLatest(stack, detection) ==
    IF detection.id \notin DOMAIN SKILL_TRIGGERS THEN stack
    ELSE LET category == SKILL_TRIGGERS[detection.id]
             i == FindDetection(stack[category], detection.id)
         IN  IF i = 0 THEN [stack EXCEPT ![category] = Append(@, detection)]
             ELSE [stack EXCEPT ![category][i] = ObjectAssign(@, detection)]

\* ProjectDetector.addDetection
ProjectDetector_addDetection(stack, detection) ==
    IF detection.id \notin DOMAIN SKILL_TRIGGERS THEN stack
    ELSE LET category == SKILL_TRIGGERS[detection.id]
             i == FindDetection(stack[category], detection.id)
         IN  IF i = 0 THEN [stack EXCEPT ![category] = Append(@, detection)]
             ELSE IF detection.confidence > stack[category][i].confidence
                  THEN [stack EXCEPT ![category][i] = ObjectAssign(@, detection)]
                  ELSE stack

\* ProjectDetector.mergeDetections, from detection i on
RECURSIVE mergeDetections(_, _, _)
mergeDetections(i, stack, detections) ==
    IF i > Len(detections) THEN stack
    ELSE mergeDetections(i + 1, ProjectDetector_addDetection(stack, detections[i]),
                         detections)

ECOSYSTEM_TECH_MAP ==
    [npm |-> [id |-> "javascript", category |-> "languages"],
     pip |-> [id |-> "python", category |-> "languages"]]

PACKAGE_FRAMEWORK_MAP ==
    [react |-> [id |-> "react", category |-> "frameworks"],
     next |-> [id |-> "nextjs", category |-> "frameworks"]]

\* mergeFromSBOM, from package i on
RECURSIVE SBOMFrom(_, _, _, _)
SBOMFrom(i, packages, seen, stack) ==
    IF i > Len(packages) THEN stack
    ELSE LET pkg == packages[i]
             ecosystem == pkg.ecosystem \in DOMAIN ECOSYSTEM_TECH_MAP
                             /\ ECOSYSTEM_TECH_MAP[pkg.ecosystem].id \notin seen
             ecosystemTech == ECOSYSTEM_TECH_MAP[pkg.ecosystem]
             seen1 == IF ecosystem THEN seen \cup {ecosystemTech.id} ELSE seen
             stack1 == IF ecosystem
                       THEN addDetection(stack, ecosystemTech.category,
                                [id |-> ecosystemTech.id, version |-> NoProperty,
                                 confidence |-> 950, source |-> "github-sbom"])
                       ELSE stack
             framework == pkg.name \in DOMAIN PACKAGE_FRAMEWORK_MAP
                             /\ PACKAGE_FRAMEWORK_MAP[pkg.name].id \notin seen1
             frameworkTech == PACKAGE_FRAMEWORK_MAP[pkg.name]
         IN  SBOMFrom(i + 1, packages,
                IF framework THEN seen1 \cup {frameworkTech.id} ELSE seen1,
                IF framework
                THEN addDetection(stack1, frameworkTech.category,
                        [id |-> frameworkTech.id, version |-> pkg.version,
                         confidence |-> 950, source |-> "github-sbom"])
                ELSE stack1)

mergeFromSBOM(stack, packages) == SBOMFrom(1, packages, {}, stack)

\* tech.indexed of the stack analyser, for the technologies of the model
TechIndexed ==
    [react |-> [type |-> "framework"], nextjs |-> [type |-> "framework"],
     docker |-> [type |-> "container"]]

SPECFY_CATEGORY_MAP ==
    [language |-> "languages", framework |-> "frameworks", container |-> "infrastructure"]

\* one of the two loops of mergeFromSpecfy over a list of tech keys
RECURSIVE TechsFrom(_, _, _, _)
TechsFrom(i, techs, confidence, stack) ==
    IF i > Len(techs) THEN stack
    ELSE TechsFrom(i + 1, techs, confidence,
            IF techs[i] \notin DOMAIN TechIndexed THEN stack
            ELSE LET type == TechIndexed[techs[i]].type
                     category == IF type \in DOMAIN SPECFY_CATEGORY_MAP
                                 THEN SPECFY_CATEGORY_MAP[type] ELSE "tools"
                 IN  addDetection(stack, category,
                        [id |-> techs[i], version |-> NoProperty,
                         confidence |-> confidence, source |-> "specfy"]))

\* the loop over payload.childs
RECURSIVE ChildsFrom(_, _, _)
ChildsFrom(i, childs, stack) ==
    IF i > Len(childs) THEN stack
    ELSE ChildsFrom(i + 1, childs, TechsFrom(1, childs[i].techs, 850, stack))

\* the loop over the entries of payload.languages: langMap sends each of the
\* names of the model to its lower case
RECURSIVE LanguagesFrom(_, _, _)
LanguagesFrom(i, languages, stack) ==
    IF i > Len(languages) THEN stack
    ELSE LanguagesFrom(i + 1, languages,
            addDetection(stack, "languages",
                [id |-> ToLowerCase(languages[i]), version |-> NoProperty,
                 confidence |-> 850, source |-> "specfy"]))

mergeFromSpecfy(stack, payload) ==
    LanguagesFrom(1, payload.languages,
        ChildsFrom(1, payload.childs, TechsFrom(1, payload.techs, 900, stack)))

StackCategories == <<"languages", "frameworks", "databases", "infrastructure", "tools">>

\* the inner loop of mergeFromLocal, over the detections of one category
RECURSIVE LocalFrom(_, _, _, _)
LocalFrom(i, category, list, target) ==
    IF i > Len(list) THEN target
    ELSE LocalFrom(i + 1, category, list, addDetection(target, category, list[i]))

\* mergeFromLocal, from category c on
RECURSIVE mergeFromLocalFrom(_, _, _)
mergeFromLocalFrom(c, target, source) ==
    IF c > Len(StackCategories) THEN target
    ELSE mergeFromLocalFrom(c + 1,
            LocalFrom(1, StackCategories[c], source[StackCategories[c]], target), source)

mergeFromLocal(target, source) == mergeFromLocalFrom(1, target, source)

\* EnhancedProjectDetector.detect: use says which tiers the detector runs
\* (the SBOM tier when useGitHubSBOM is set and a GitHub client exists),
\* answers what fetchSBOM, the stack analyser and localDetector.detect do.
\* runSpecfyAnalysis turns a failure of the analyser into null.
detect(use, answers) ==
    LET sbom == use.sbom /\ ~answers.sbom.threw /\ Len(answers.sbom.packages) > 0
        stack1 == IF sbom THEN mergeFromSBOM(EmptyStack, answers.sbom.packages)
                  ELSE EmptyStack
        specfy == use.specfy /\ ~answers.specfy.threw
        stack2 == IF specfy THEN mergeFromSpecfy(stack1, answers.specfy.payload)
                  ELSE stack1
        local == use.local /\ ~answers.local.threw
        stack3 == IF local THEN mergeFromLocal(stack2, answers.local.stack)
                  ELSE stack2
    IN  [returned |-> TRUE,
         stack |-> stack3,
         sources |-> (IF sbom THEN <<"github-sbom">> ELSE <<>>)
                        \o (IF specfy THEN <<"specfy">> ELSE <<>>)
                        \o (IF local THEN <<"local">> ELSE <<>>),
         failed |-> {tier \in {"github-sbom"} : use.sbom /\ answers.sbom.threw}
                        \cup {tier \in {"specfy"} : use.specfy /\ answers.specfy.threw}
                        \cup {tier \in {"local"} : use.local /\ answers.local.threw}]

\* the tiers a detector runs under the default options: the analyser and the
\* local detector, and the SBOM tier when the project has a GitHub remote
TierConfigs == [sbom : BOOLEAN, specfy : {TRUE}, local : {TRUE}]

SBOMPackage(name, version, ecosystem) ==
    [name |-> name, version |-> version, ecosystem |-> ecosystem]

\* what fetchSBOM may do: throw, find no package, or return the packages
SBOMAnswers ==
    { [threw |-> TRUE, packages |-> <<>>],
      [threw |-> FALSE, packages |-> <<>>],
      [threw |-> FALSE, packages |-> <<SBOMPackage("react", "18.2.0", "npm")>>],
      [threw |-> FALSE, packages |-> <<SBOMPackage("next", Undefined, "npm"),
                                       SBOMPackage("react", "18.2.0", "npm")>>] }

NoPayload == [techs |-> <<>>, childs |-> <<>>, languages |-> <<>>]

\* what the stack analyser may do: throw, or return a payload
SpecfyAnswers ==
    { [threw |-> TRUE, payload |-> NoPayload],
      [threw |-> FALSE, payload |-> [NoPayload EXCEPT !.techs = <<"react">>,
                                                      !.languages = <<"TypeScript">>]],
      [threw |-> FALSE, payload |-> [NoPayload EXCEPT
                                        !.childs = << [techs |-> <<"docker", "react">>] >>]] }

\* what parsePackageJson and scanConfigFiles may hand to the ProjectDetector
LocalEvidence ==
    { <<>>,
      << [id |-> "react", version |-> "18.2.0", confidence |-> 950, source |-> "package.json"],
         [id |-> "javascript", version |-> NoProperty, confidence |-> 900, source |-> "package.json"] >>,
      << [id |-> "typescript", version |-> "5.3.0", confidence |-> 950, source |-> "package.json"],
         [id |-> "typescript", version |-> NoProperty, confidence |-> 900, source |-> "config files"] >> }

\* what localDetector.detect may do: throw, or return the stack it merged
LocalAnswers ==
    { [threw |-> TRUE, stack |-> EmptyStack] }
        \cup { [threw |-> FALSE, stack |-> mergeDetections(1, EmptyStack, evidence)] :
                    evidence \in LocalEvidence }

TierAnswers == [sbom : SBOMAnswers, specfy : SpecfyAnswers, local : LocalAnswers]

\* the record kept of a detect call
DetectCall(use, answers, result) ==
    [op |-> "detect", use |-> use, answers |-> answers, sources |-> result.sources,
     failed |-> result.failed,
     outcome |-> IF result.returned THEN "returned" ELSE "threw"]

\* the detectors and the registry client of one process, before any call
EvidenceInit == RegistryInit

\* enhancedDetector.detect()
Detect(use, answers) ==
    /\ \E result \in {detect(use, answers)} :
           /\ detectedStack' = result.stack
           /\ last' = DetectCall(use, answers, result)
    /\ localStack' = IF use.local /\ ~answers.local.threw THEN answers.local.stack
                     ELSE localStack
    /\ UNCHANGED <<config, fs, pendingSyncs, nextId, now, confirmed, catalog, resolving,
                   registries, cacheFiles, today, aside>>

EvidenceNext ==
    \/ \E forceRefresh \in BOOLEAN, answers \in RemoteAnswers :
            GetAllSkills(forceRefresh, answers)
    \/ \E use \in TierConfigs, answers \in TierAnswers : Detect(use, answers)

EvidenceSpec == EvidenceInit /\ [][EvidenceNext]_vars

-----------------------------------------------------------------------------
(* EnhancedProjectDetector.detect alone, under the options that                *)
(* createEnhancedDetector can switch off: the SBOM tier and the analyser       *)

DetectorOptions == [sbom : BOOLEAN, specfy : BOOLEAN, local : {TRUE}]

DetectNext == \E use \in DetectorOptions, answers \in TierAnswers : Detect(use, answers)

DetectSpec == EvidenceInit /\ [][DetectNext]_vars

-----------------------------------------------------------------------------
(* The two addDetection methods, one call at a time: the detections of two    *)
(* technologies, with every shape of the version property and two            *)
(* confidences, arrive in any order at the stack of an                        *)
(* EnhancedProjectDetector (detectedStack) and at the stack of a              *)
(* ProjectDetector (localStack)                                               *)

MergeIds == {"react", "typescript"}

\* 0.85 and 0.95
MergeConfidences == {850, 950}

MergeDetections ==
    [id : MergeIds, version : {NoProperty, Undefined, "18.2.0"},
     confidence : MergeConfidences, source : {"package.json"}]

\* the record kept of an addDetection call
MergeCall(detector, category, detection) ==
    [op |-> "addDetection", detector |-> detector, category |-> category,
     detection |-> detection]

MergeInit ==
    /\ config = DEFAULT_CONFIG
    /\ detectedStack = EmptyStack
    /\ localStack = EmptyStack
    /\ Untouched
    /\ fs = EmptyFs
    /\ pendingSyncs = NoSessions
    /\ nextId = 0
    /\ now = 0
    /\ last = NoCall
    /\ confirmed = {}
    /\ catalog = Registry
    /\ resolving = NotResolving
    /\ NoRegistryClient

\* this.addDetection(stack, category, detection) of the EnhancedProjectDetector
EnhancedAddDetection(detection) ==
    /\ detectedStack' = addDetection(detectedStack, SKILL_TRIGGERS[detection.id], detection)
    /\ last' = MergeCall("EnhancedProjectDetector", SKILL_TRIGGERS[detection.id], detection)
    /\ UNCHANGED <<config, fs, pendingSyncs, nextId, now, confirmed, catalog, resolving,
                   registries, cacheFiles, today, localStack, aside>>

\* this.addDetection(stack, detection) of the ProjectDetector
LocalAddDetection(detection) ==
    /\ localStack' = ProjectDetector_addDetection(localStack, detection)
    /\ last' = MergeCall("ProjectDetector", SKILL_TRIGGERS[detection.id], detection)
    /\ UNCHANGED <<config, fs, pendingSyncs, nextId, now, confirmed, catalog, resolving,
                   registries, cacheFiles, today, detectedStack, aside>>

MergeNext ==
    \E detection \in MergeDetections :
        EnhancedAddDetection(detection) \/ LocalAddDetection(detection)

MergeSpec == MergeInit /\ [][MergeNext]_vars

-----------------------------------------------------------------------------
(* installSkill and uninstallSkill on the files of the skill directories of   *)
(* one install path: SKILL.md and the files of resources/, as the registry    *)
(* serves them at the time of the call                                         *)

Contents == {"v1", "v2"}

\* what fetchSkillContent and fetchSkillResources return for the skill: the
\* text of SKILL.md, and the Map of resources ("none": the Map has no such key)
Served == [content : Contents, resources : [ResourceNames -> {"none", "v1"}]]

\* where an installSkill call throws, if it does: at the mkdir of the skill
\* directory, in fetchSkillContent, or at the write of a resource
InstallStages == {"none", "mkdir", "content", "resources"}

\* installSkill: fs.mkdir(skillDir, { recursive: true }), write SKILL.md, write
\* every resource of the Map; the files left behind and whether it returned
installSkillFiles(files, name, served, stage) ==
    LET made == [files EXCEPT ![name].exists = TRUE]
        written == [made EXCEPT ![name].skillMd = served.content]
        complete == [written EXCEPT ![name].resources =
                        [r \in ResourceNames |->
                            IF served.resources[r] # "none" THEN served.resources[r]
                            ELSE @[r]]]
    IN  CASE stage = "mkdir" -> [files |-> files, ok |-> FALSE]
          [] stage = "content" -> [files |-> made, ok |-> FALSE]
          [] stage = "resources" -> [files |-> written, ok |-> FALSE]
          [] OTHER -> [files |-> complete, ok |-> TRUE]

\* an uninstallSkill without the try / catch around fs.rm
uninstallSkillFilesUncaught(files, name) ==
    [files |-> [files EXCEPT ![name] = NoDir], threw |-> ~files[name].exists]

\* uninstallSkill: fs.rm(skillDir, { recursive: true }) throws when there is no
\* such directory; the catch logs the error
uninstallSkillFiles(files, name) ==
    [files |-> [files EXCEPT ![name] = NoDir], threw |-> FALSE]

InstallNames == {"react", "typescript"}

InstallInit ==
    /\ skillFiles = NoSkillFiles
    /\ cachedBundles = NoBundles
    /\ bundlesCache = NoBundlesCache
    /\ defaultAgent = DefaultAgent
    /\ configFile = NoConfigFile
    /\ NoContextFile
    /\ config = DEFAULT_CONFIG
    /\ detectedStack = EmptyStack
    /\ localStack = EmptyStack
    /\ fs = EmptyFs
    /\ pendingSyncs = NoSessions
    /\ nextId = 0
    /\ now = 0
    /\ last = NoCall
    /\ confirmed = {}
    /\ catalog = Registry
    /\ resolving = NotResolving
    /\ NoRegistryClient

\* installer.installSkill(skill, installPath)
InstallSkill(name, served, stage) ==
    /\ \E done \in {installSkillFiles(skillFiles, name, served, stage)} :
           /\ skillFiles' = done.files
           /\ last' = [op |-> "installSkill", name |-> name, served |-> served,
                       before |-> skillFiles[name],
                       outcome |-> IF done.ok THEN "returned" ELSE "threw"]
    /\ UNCHANGED <<config, detectedStack, fs, pendingSyncs, nextId, now, confirmed,
                   catalog, resolving, registries, cacheFiles, today, localStack,
                   cachedBundles, bundlesCache, defaultAgent, configFile,
                   beside>>

\* installer.uninstallSkill(skillName, installPath)
UninstallSkill(name) ==
    /\ \E done \in {uninstallSkillFiles(skillFiles, name)} :
           /\ skillFiles' = done.files
           /\ last' = [op |-> "uninstallSkill", name |-> name, served |-> "none",
                       before |-> skillFiles[name],
                       outcome |-> IF done.threw THEN "threw" ELSE "returned"]
    /\ UNCHANGED <<config, detectedStack, fs, pendingSyncs, nextId, now, confirmed,
                   catalog, resolving, registries, cacheFiles, today, localStack,
                   cachedBundles, bundlesCache, defaultAgent, configFile,
                   beside>>

InstallNext ==
    \/ \E name \in InstallNames, served \in Served, stage \in InstallStages :
            InstallSkill(name, served, stage)
    \/ \E name \in InstallNames : UninstallSkill(name)

InstallSpec == InstallInit /\ [][InstallNext]_vars

-----------------------------------------------------------------------------
(* The installer on catalogs with manual_only entries: the tool calls of     *)
(* PolicySpec, started from catalogs in which an entry that the project      *)
(* would otherwise match is marked manual_only                               *)

\* React is manual_only; TypeScript is manual_only and React depends on it;
\* Next.js is manual_only; and the catalog of the tests, with no such entry
ManualCatalogs ==
    { << [name |-> "typescript", version |-> "1.0.0", dependencies |-> <<>>,
          triggers |-> [packages |-> <<"typescript">>, manual_only |-> FALSE]],
         [name |-> "react", version |-> "1.0.0", dependencies |-> <<"typescript">>,
          triggers |-> [packages |-> <<"react">>, manual_only |-> TRUE]] >>,
      << [name |-> "typescript", version |-> "1.0.0", dependencies |-> <<>>,
          triggers |-> [packages |-> <<"typescript">>, manual_only |-> TRUE]],
         [name |-> "react", version |-> "1.0.0", dependencies |-> <<"typescript">>,
          triggers |-> [packages |-> <<"react">>, manual_only |-> FALSE]] >>,
      Registry \o
      << [name |-> "nextjs", version |-> "1.0.0", dependencies |-> <<"typescript", "react">>,
          triggers |-> [packages |-> <<"next">>, manual_only |-> TRUE]] >>,
      MockSkills }

\* the projects: React, Next.js or TypeScript found among the dependencies of
\* package.json, which detectFromPackageJson reports with the source
\* "package.json (<package>)"
ManualStacks ==
    { [EmptyStack EXCEPT !.frameworks =
          << [id |-> "react", confidence |-> 950, source |-> "package.json (react)"] >>],
      [EmptyStack EXCEPT !.frameworks =
          << [id |-> "next", confidence |-> 950, source |-> "package.json (next)"] >>],
      [EmptyStack EXCEPT !.languages =
          << [id |-> "typescript", confidence |-> 950,
              source |-> "package.json (typescript)"] >>] }

\* the configurations: always_include empty or naming one catalog entry
ManualConfigs ==
    { [DEFAULT_CONFIG EXCEPT !.skills.always_include = i] :
        i \in {<<>>, <<"react">>, <<"typescript">>, <<"nextjs">>} }

ManualInit ==
    /\ catalog \in ManualCatalogs
    /\ resolving = NotResolving
    /\ config \in ManualConfigs
    /\ detectedStack \in ManualStacks
    /\ fs \in InitialFs \cup {EmptyFs}
    /\ pendingSyncs = NoSessions
    /\ nextId = 0
    /\ now = 0
    /\ last = NoCall
    /\ confirmed = {}
    /\ NoRegistryClient
    /\ localStack = EmptyStack
    /\ Untouched

ManualSpec == ManualInit /\ [][PolicyNext]_vars

-----------------------------------------------------------------------------
(* The installer with two target agents: sync_skills with every agent        *)
(* parameter under both settings of agent.sync_both, reset_skills and        *)
(* uninstall_skill, started from an installation directory of Claude that    *)
(* is empty, outdated or up to date                                          *)

AgentsConfigs ==
    { [DEFAULT_CONFIG EXCEPT !.agent.sync_both = b, !.sync.auto_remove = r] :
        b \in BOOLEAN, r \in BOOLEAN }

\* the agent parameter of sync_skills
AgentsArgs == {"auto", "both", "copilot"}

\* the installation directories: none, an outdated typescript, or typescript
\* and react up to date, each under .claude/skills
AgentsFs ==
    InitialFs \cup
    { EmptyFs,
      [EmptyFs EXCEPT !.dirs[".claude/skills"] = TRUE,
                      !.skills[".claude/skills"]["typescript"] = "1.0.0",
                      !.skills[".claude/skills"]["react"] = "1.0.0"] }

AgentsInit ==
    /\ catalog = Registry
    /\ resolving = NotResolving
    /\ config \in AgentsConfigs
    /\ detectedStack \in Stacks
    /\ fs \in AgentsFs
    /\ pendingSyncs = NoSessions
    /\ nextId = 0
    /\ now = 0
    /\ last = NoCall
    /\ confirmed = {}
    /\ NoRegistryClient
    /\ localStack = EmptyStack
    /\ Untouched

AgentsNext ==
    \/ \E agent \in AgentsArgs, fault \in Faults : SyncSkillsImmediate(TRUE, agent, fault)
    \/ \E confirm \in BOOLEAN, all_agents \in BOOLEAN : ResetSkillsTool(confirm, all_agents)
    \/ \E skillName \in UninstallNames : UninstallSkillTool(skillName)

AgentsSpec == AgentsInit /\ [][AgentsNext]_vars

-----------------------------------------------------------------------------
(* RegistryClient.getAllBundles: one client, its cachedBundles field and     *)
(* bundles-cache.json, over the days of the registry client's clock          *)

\* what fetch(BUNDLES_URL) answers: a response that is not ok, an exception,
\* or a document whose bundles (data.bundles || []) are listed by id
BundleLists == {<<>>, <<"frontend-react">>, <<"frontend-react", "mcp-development">>}
BundleAnswers ==
    {[kind |-> k, bundles |-> <<>>] : k \in {"not ok", "throws"}}
        \cup {[kind |-> "ok", bundles |-> b] : b \in BundleLists}

\* loadBundlesCache: the bundles of a readable file younger than the maximum
\* age, null otherwise
loadBundlesCache(file, date) ==
    IF file.readable /\ date - file.fetched_at < CacheMaxAgeDays
    THEN [found |-> TRUE, bundles |-> file.bundles]
    ELSE [found |-> FALSE, bundles |-> <<>>]

\* saveBundlesCache: a write that fails is logged and leaves the file
saveBundlesCache(file, bundles, date, saveFails) ==
    IF saveFails THEN file
    ELSE [readable |-> TRUE, fetched_at |-> date, bundles |-> bundles]

\* getAllBundles: what it returns, where from, and the two caches it leaves
getAllBundles(cached, file, forceRefresh, answer, saveFails, date) ==
    LET disk == loadBundlesCache(file, date)
    IN  IF cached.loaded /\ ~forceRefresh
        THEN [bundles |-> cached.bundles, outcome |-> "memory",
              cachedBundles |-> cached, bundlesCache |-> file]
        ELSE IF ~forceRefresh /\ disk.found
        THEN [bundles |-> disk.bundles, outcome |-> "disk",
              cachedBundles |-> [loaded |-> TRUE, bundles |-> disk.bundles,
                                 obtained |-> file.fetched_at],
              bundlesCache |-> file]
        ELSE IF answer.kind # "ok"
        THEN [bundles |-> <<>>, outcome |-> "fetch failed",
              cachedBundles |-> cached, bundlesCache |-> file]
        ELSE [bundles |-> answer.bundles, outcome |-> "fetched",
              cachedBundles |-> [loaded |-> TRUE, bundles |-> answer.bundles,
                                 obtained |-> date],
              bundlesCache |-> saveBundlesCache(file, answer.bundles, date, saveFails)]

\* the process starts with no bundles-cache.json or with one written today
BundleInit ==
    /\ bundlesCache \in {NoBundlesCache,
                         [readable |-> TRUE, fetched_at |-> 0, bundles |-> <<"frontend-react">>]}
    /\ cachedBundles = NoBundles
    /\ skillFiles = NoSkillFiles
    /\ defaultAgent = DefaultAgent
    /\ configFile = NoConfigFile
    /\ NoContextFile
    /\ NoRegistryClient
    /\ localStack = EmptyStack
    /\ catalog = <<>>
    /\ resolving = NotResolving
    /\ config = DEFAULT_CONFIG
    /\ detectedStack = EmptyStack
    /\ fs = EmptyFs
    /\ pendingSyncs = NoSessions
    /\ nextId = 0
    /\ now = 0
    /\ last = NoCall
    /\ confirmed = {}

\* registryClient.getAllBundles(forceRefresh)
GetAllBundles(forceRefresh, answer, saveFails) ==
    /\ \E r \in {getAllBundles(cachedBundles, bundlesCache, forceRefresh, answer,
                                saveFails, today)} :
           /\ cachedBundles' = r.cachedBundles
           /\ bundlesCache' = r.bundlesCache
           /\ last' = [NoCall EXCEPT !.op = "getAllBundles",
                                     !.mode = IF forceRefresh THEN "forceRefresh"
                                              ELSE "default",
                                     !.outcome = r.outcome]
    /\ UNCHANGED <<config, detectedStack, fs, pendingSyncs, nextId, now, confirmed,
                   catalog, resolving, registries, cacheFiles, today, localStack,
                   skillFiles, defaultAgent, configFile,
                   beside>>

\* the server process is started again: a new RegistryClient, the files stay
NewRegistryClient ==
    /\ cachedBundles' = NoBundles
    /\ last' = [NoCall EXCEPT !.op = "restart"]
    /\ UNCHANGED <<config, detectedStack, fs, pendingSyncs, nextId, now, confirmed,
                   catalog, resolving, registries, cacheFiles, today, localStack,
                   skillFiles, bundlesCache, defaultAgent, configFile,
                   beside>>

BundleNext ==
    \/ DayPasses
    \/ NewRegistryClient
    \/ \E forceRefresh \in BOOLEAN, answer \in BundleAnswers, saveFails \in BOOLEAN :
            GetAllBundles(forceRefresh, answer, saveFails)

BundleSpec == BundleInit /\ [][BundleNext]_vars

-----------------------------------------------------------------------------
(* ConfigManager: loadConfig, initializeConfig and setAgentPreference of one *)
(* process, with the agent object of the module's DEFAULT_CONFIG and         *)
(* .mcp/mother/config.yaml                                                   *)

\* mergeWithDefaults, agent part: { ...DEFAULT_CONFIG.agent, ...loaded.agent },
\* a new object in which the properties of the file win
mergeWithDefaults(default, file) ==
    [mode |-> file.agent.mode,
     sync_both |-> file.agent.sync_both,
     force |-> IF file.agent.force # "undefined" THEN file.agent.force ELSE default.force]

\* loadConfig: the agent object of the configuration returned, and whether
\* it is the object of DEFAULT_CONFIG itself ({ ...DEFAULT_CONFIG } copies
\* the top level only)
loadConfig(default, file) ==
    IF file.exists
    THEN [agent |-> mergeWithDefaults(default, file), shared |-> FALSE]
    ELSE [agent |-> default, shared |-> TRUE]

\* saveConfig: mkdir and writeFile, either of which may throw
saveConfig(file, agent, saveFails) ==
    IF saveFails THEN file ELSE [exists |-> TRUE, agent |-> agent]

\* the assignments of setAgentPreference to config.agent
Preferred(agentObject, agent) ==
    IF agent = "both" THEN [agentObject EXCEPT !.sync_both = TRUE]
    ELSE IF agent # "auto" THEN [agentObject EXCEPT !.sync_both = FALSE, !.force = agent]
    ELSE [agentObject EXCEPT !.sync_both = FALSE, !.force = "undefined"]

\* the configuration files a process may find: none, or one that forces Copilot
ConfigFiles ==
    { NoConfigFile,
      [exists |-> TRUE,
       agent |-> [mode |-> "copilot", sync_both |-> FALSE, force |-> "undefined"]] }

AgentPreferences == {"auto", "claude", "copilot", "both"}

ConfigInit ==
    /\ configFile \in ConfigFiles
    /\ NoContextFile
    /\ defaultAgent = DefaultAgent
    /\ skillFiles = NoSkillFiles
    /\ cachedBundles = NoBundles
    /\ bundlesCache = NoBundlesCache
    /\ NoRegistryClient
    /\ localStack = EmptyStack
    /\ catalog = Registry
    /\ resolving = NotResolving
    /\ config = DEFAULT_CONFIG
    /\ detectedStack = EmptyStack
    /\ fs \in AgentsFs
    /\ pendingSyncs = NoSessions
    /\ nextId = 0
    /\ now = 0
    /\ last = NoCall
    /\ confirmed = {}

\* configManager.loadConfig()
LoadConfig ==
    /\ last' = [NoCall EXCEPT !.op = "loadConfig", !.outcome = "ok",
                              !.present = configFile.exists,
                              !.loaded = Loaded(loadConfig(defaultAgent, configFile).agent)]
    /\ UNCHANGED <<config, detectedStack, fs, pendingSyncs, nextId, now, confirmed,
                   catalog, resolving, registries, cacheFiles, today, localStack,
                   skillFiles, cachedBundles, bundlesCache, defaultAgent, configFile,
                   beside>>

\* configManager.initializeConfig(): an existing file is loaded, otherwise
\* the default configuration is saved and returned
InitializeConfig(saveFails) ==
    /\ configFile' = IF configFile.exists THEN configFile
                     ELSE saveConfig(configFile, defaultAgent, saveFails)
    /\ last' = [NoCall EXCEPT !.op = "initializeConfig",
                              !.present = configFile.exists,
                              !.outcome = IF ~configFile.exists /\ saveFails
                                          THEN "threw" ELSE "ok",
                              !.loaded = Loaded(loadConfig(defaultAgent, configFile).agent)]
    /\ UNCHANGED <<config, detectedStack, fs, pendingSyncs, nextId, now, confirmed,
                   catalog, resolving, registries, cacheFiles, today, localStack,
                   skillFiles, cachedBundles, bundlesCache, defaultAgent,
                   beside>>

\* configManager.setAgentPreference(agent): the assignments are made on the
\* object loadConfig returned, which is DEFAULT_CONFIG.agent when there is
\* no file
SetAgentPreference(agent, saveFails) ==
    /\ LET loaded == loadConfig(defaultAgent, configFile)
           preferred == Preferred(loaded.agent, agent)
       IN  /\ defaultAgent' = IF loaded.shared THEN preferred ELSE defaultAgent
           /\ configFile' = saveConfig(configFile, preferred, saveFails)
           /\ last' = [NoCall EXCEPT !.op = "setAgentPreference", !.agent = agent,
                                     !.present = configFile.exists,
                                     !.outcome = IF saveFails THEN "threw" ELSE "ok"]
    /\ UNCHANGED <<config, detectedStack, fs, pendingSyncs, nextId, now, confirmed,
                   catalog, resolving, registries, cacheFiles, today, localStack,
                   skillFiles, cachedBundles, bundlesCache,
                   beside>>

\* reset_skills with confirm = true and clear_config = true: the project
\* skill paths of the agents to reset, then .mcp/mother
ResetSkillsClearConfig(all_agents) ==
    /\ LET agentsToReset == IF all_agents
                            THEN {"claude", "copilot", "codex", "generic"}
                            ELSE {DetectedAgent}
           removed == UNION {ResetPaths(a) : a \in agentsToReset}
       IN  fs' = [dirs |-> [p \in Paths |-> fs.dirs[p] /\ p \notin removed],
                  skills |-> [p \in Paths |->
                                IF p \in removed
                                THEN [n \in SkillNames |-> Absent]
                                ELSE fs.skills[p]]]
    /\ configFile' = NoConfigFile
    /\ last' = [NoCall EXCEPT !.op = "reset_skills", !.outcome = "ok",
                              !.mode = IF all_agents THEN "all_agents"
                                       ELSE "detected agent",
                              !.present = configFile.exists]
    /\ UNCHANGED <<config, detectedStack, pendingSyncs, nextId, now, confirmed,
                   catalog, resolving, registries, cacheFiles, today, localStack,
                   skillFiles, cachedBundles, bundlesCache, defaultAgent,
                   beside>>

ConfigNext ==
    \/ LoadConfig
    \/ \E saveFails \in BOOLEAN : InitializeConfig(saveFails)
    \/ \E agent \in AgentPreferences, saveFails \in BOOLEAN :
            SetAgentPreference(agent, saveFails)
    \/ \E all_agents \in BOOLEAN : ResetSkillsClearConfig(all_agents)

ConfigSpec == ConfigInit /\ [][ConfigNext]_vars

-----------------------------------------------------------------------------
(* The installer on catalogs with chains of dependencies: the tool calls of  *)
(* PolicySpec, started from catalogs in which a dependency has dependencies  *)
(* of its own or is missing, with and without a name in always_exclude       *)

\* nextjs needs react and react needs typescript
ChainCatalog ==
    << [name |-> "typescript", version |-> "1.0.0", dependencies |-> <<>>,
        triggers |-> [packages |-> <<"typescript">>, manual_only |-> FALSE]],
       [name |-> "react", version |-> "1.0.0", dependencies |-> <<"typescript">>,
        triggers |-> [packages |-> <<"react">>, manual_only |-> FALSE]],
       [name |-> "nextjs", version |-> "1.0.0", dependencies |-> <<"react">>,
        triggers |-> [packages |-> <<"next">>, manual_only |-> FALSE]] >>

\* react declares a dependency that no registry has
DanglingCatalog ==
    << [name |-> "typescript", version |-> "1.0.0", dependencies |-> <<>>,
        triggers |-> [packages |-> <<"typescript">>, manual_only |-> FALSE]],
       [name |-> "react", version |-> "1.0.0",
        dependencies |-> <<"unknown-skill", "typescript">>,
        triggers |-> [packages |-> <<"react">>, manual_only |-> FALSE]] >>

ClosureCatalogs == {MockSkills, ChainCatalog, DanglingCatalog, CyclicCatalog}

ClosureConfigs ==
    { [DEFAULT_CONFIG EXCEPT !.skills.always_include = i,
                             !.skills.always_exclude = e] :
        i \in {<<>>, <<"nextjs">>}, e \in ExcludeLists }

ClosureInit ==
    /\ catalog \in ClosureCatalogs
    /\ resolving = NotResolving
    /\ config \in ClosureConfigs
    /\ detectedStack \in PolicyStacks
    /\ fs \in InitialFs \cup {EmptyFs}
    /\ pendingSyncs = NoSessions
    /\ nextId = 0
    /\ now = 0
    /\ last = NoCall
    /\ confirmed = {}
    /\ NoRegistryClient
    /\ localStack = EmptyStack
    /\ Untouched

ClosureSpec == ClosureInit /\ [][PolicyNext]_vars

-----------------------------------------------------------------------------
(* ConfigManager and project-context.yaml: updateContext, addManualSkill and *)
(* excludeSkill, called on their own and by the handlers of get_project_     *)
(* context, sync_skills, install_skill and uninstall_skill                   *)

\* Array.prototype.filter(s => s !== skillName)
FilterOut(names, skillName) == SelectSeq(names, LAMBDA s : s # skillName)

\* saveContext: mkdir and writeFile, either of which may throw
saveContext(ctx, written, saveFails) == IF saveFails THEN ctx ELSE written

\* updateContext: manual: existing?.manual || { include_skills: [], exclude_skills: [] }
updateContext(ctx, saveFails) ==
    saveContext(ctx,
                [exists |-> TRUE,
                 include_skills |-> IF ctx.exists THEN ctx.include_skills ELSE <<>>,
                 exclude_skills |-> IF ctx.exists THEN ctx.exclude_skills ELSE <<>>],
                saveFails)

\* an addManualSkill without its "Remove from excludes if present"
addManualSkillOnly(ctx, skillName, saveFails) ==
    IF ~ctx.exists THEN ctx
    ELSE saveContext(ctx,
            [ctx EXCEPT !.include_skills =
                            IF Includes(@, skillName) THEN @ ELSE Append(@, skillName)],
            saveFails)

addManualSkill(ctx, skillName, saveFails) ==
    IF ~ctx.exists THEN ctx
    ELSE saveContext(ctx,
            [ctx EXCEPT !.include_skills =
                            IF Includes(@, skillName) THEN @ ELSE Append(@, skillName),
                        !.exclude_skills = FilterOut(@, skillName)],
            saveFails)

excludeSkill(ctx, skillName, saveFails) ==
    IF ~ctx.exists THEN ctx
    ELSE saveContext(ctx,
            [ctx EXCEPT !.exclude_skills =
                            IF Includes(@, skillName) THEN @ ELSE Append(@, skillName),
                        !.include_skills = FilterOut(@, skillName)],
            saveFails)

\* the skills that are asked for by name
ContextNames == {"react", "nextjs"}

\* the project-context.yaml a process may find: none, one that updateContext
\* has written, or one with an include and an exclude
ContextFiles ==
    { NoContext,
      [exists |-> TRUE, include_skills |-> <<>>, exclude_skills |-> <<>>],
      [exists |-> TRUE, include_skills |-> <<"react">>, exclude_skills |-> <<"nextjs">>] }

\* the configuration: what is no longer required is removed
ContextConfigs == { [DEFAULT_CONFIG EXCEPT !.sync.auto_remove = TRUE] }

ContextInit ==
    /\ context \in ContextFiles
    /\ inflight = <<>>
    /\ skillFiles = NoSkillFiles
    /\ cachedBundles = NoBundles
    /\ bundlesCache = NoBundlesCache
    /\ defaultAgent = DefaultAgent
    /\ configFile = NoConfigFile
    /\ NoRegistryClient
    /\ localStack = EmptyStack
    /\ catalog = MockSkills
    /\ resolving = NotResolving
    /\ config \in ContextConfigs
    /\ detectedStack \in Stacks
    /\ fs = EmptyFs
    /\ pendingSyncs = NoSessions
    /\ nextId = 0
    /\ now = 0
    /\ last = NoCall
    /\ confirmed = {}

\* what the calls of this part leave alone, the context apart
contextFrame == <<config, detectedStack, pendingSyncs, nextId, now, confirmed,
                  catalog, resolving, registries, cacheFiles, today, localStack,
                  skillFiles, cachedBundles, bundlesCache, defaultAgent, configFile,
                  inflight>>

\* configManager.updateContext(...)
UpdateContext(saveFails) ==
    /\ context' = updateContext(context, saveFails)
    /\ last' = [NoCall EXCEPT !.op = "updateContext", !.present = context.exists,
                              !.outcome = IF saveFails THEN "threw" ELSE "ok"]
    /\ UNCHANGED <<contextFrame, fs>>

\* configManager.addManualSkill(skillName)
AddManualSkill(skillName, saveFails) ==
    /\ context' = addManualSkill(context, skillName, saveFails)
    /\ last' = [NoCall EXCEPT !.op = "addManualSkill", !.name = skillName,
                              !.present = context.exists,
                              !.outcome = IF context.exists /\ saveFails
                                          THEN "threw" ELSE "ok"]
    /\ UNCHANGED <<contextFrame, fs>>

\* configManager.excludeSkill(skillName)
ExcludeSkill(skillName, saveFails) ==
    /\ context' = excludeSkill(context, skillName, saveFails)
    /\ last' = [NoCall EXCEPT !.op = "excludeSkill", !.name = skillName,
                              !.present = context.exists,
                              !.outcome = IF context.exists /\ saveFails
                                          THEN "threw" ELSE "ok"]
    /\ UNCHANGED <<contextFrame, fs>>

\* get_project_context: a missing context is generated and saved
HandleGetProjectContext ==
    /\ context' = IF context.exists THEN context ELSE updateContext(context, FALSE)
    /\ last' = [NoCall EXCEPT !.op = "get_project_context", !.present = context.exists,
                              !.outcome = "ok"]
    /\ UNCHANGED <<contextFrame, fs>>

\* sync_skills with skip_confirmation = true: syncSkills, then updateContext
HandleSyncSkills ==
    /\ \E r \in {syncSkills(fs, detectedStack, Installed, [dryRun |-> FALSE, agent |-> "auto"],
                              config, Profile, catalog, NoFault)} :
           /\ fs' = r.fs
           /\ context' = updateContext(context, FALSE)
           /\ last' = [NoCall EXCEPT !.op = "sync_skills", !.mode = "immediate",
                                     !.outcome = r.outcome, !.agent = "auto",
                                     !.targets = r.result.agent,
                                     !.paths = r.result.paths]
    /\ UNCHANGED contextFrame

\* install_skill: installSkillByName, then addManualSkill unless the registry
\* has no such skill
HandleInstallSkill(skillName) ==
    /\ \E r \in {installSkillByName(fs, skillName, config, Profile, catalog, NoFault)} :
           /\ fs' = r.fs
           /\ context' = IF r.outcome = "ok" THEN addManualSkill(context, skillName, FALSE)
                         ELSE context
           /\ last' = [NoCall EXCEPT !.op = "install_skill",
                                     !.name = skillName,
                                     !.present = (FindIndex(catalog, skillName) # 0),
                                     !.outcome = IF r.outcome = "null"
                                                 THEN "not found in registry"
                                                 ELSE r.outcome]
    /\ UNCHANGED contextFrame

\* uninstall_skill: uninstallSkill, then excludeSkill
HandleUninstallSkill(skillName) ==
    /\ LET installPath == IF config.install_path # NoPath THEN config.install_path
                          ELSE Profile.projectSkillPaths[1]
       IN  /\ fs' = uninstallSkill(fs, skillName, installPath)
           /\ context' = excludeSkill(context, skillName, FALSE)
           /\ last' = [NoCall EXCEPT !.op = "uninstall_skill",
                                     !.name = skillName,
                                     !.present = HasDir(fs, installPath, skillName),
                                     !.outcome = "ok"]
    /\ UNCHANGED contextFrame

ContextNext ==
    \/ \E saveFails \in BOOLEAN : UpdateContext(saveFails)
    \/ \E skillName \in ContextNames, saveFails \in BOOLEAN :
            AddManualSkill(skillName, saveFails)
    \/ \E skillName \in ContextNames, saveFails \in BOOLEAN :
            ExcludeSkill(skillName, saveFails)
    \/ HandleGetProjectContext
    \/ HandleSyncSkills
    \/ PreviewSyncTool
    \/ \E skillName \in ContextNames \cup {"unknown-skill"} : HandleInstallSkill(skillName)
    \/ \E skillName \in ContextNames : HandleUninstallSkill(skillName)

ContextSpec == ContextInit /\ [][ContextNext]_vars

-----------------------------------------------------------------------------
(* The session table under every call: previews and confirmations as in      *)
(* Spec, the calls that never touch the table with one input each            *)

SessionNext ==
    \/ \E minutes \in TickSteps : Tick(minutes)
    \/ Restart
    \/ SyncSkillsDryRun
    \/ SyncSkillsImmediate(TRUE, "auto", NoFault)
    \/ SyncSkillsConfirmFirst
    \/ PreviewSyncTool
    \/ \E previewId \in 1..MaxPreviews, call \in ConfirmCalls :
            ConfirmSyncTool(previewId, call.approved, call.rejected, call.fault)
    \/ InstallSkillTool("react", NoFault)
    \/ \E skillName \in UninstallNames : UninstallSkillTool(skillName)
    \/ ResetSkillsTool(TRUE, FALSE)
    \/ SetupTool(TRUE, NoFault)

SessionSpec == Init /\ [][SessionNext]_vars

-----------------------------------------------------------------------------
(* confirmSync one suspension point at a time.  The handlers of the server  *)
(* are async functions and the transport hands every request to its handler *)
(* as it arrives, so a second confirm_sync may start while the first waits  *)
(* at an await; between two awaits a call runs alone.                       *)

MaxCalls == 2        \* confirm_sync calls in flight at the same time

\* a call in flight: the session id asked for, the entry pendingSyncs.get
\* returned, and the number of pending changes it has dealt with so far
Suspended(previewId, pending) == [id |-> previewId, pending |-> pending, done |-> 0]

\* the pending changes up to change i: the loop run on them from change i on
\* deals with change i alone
UpTo(pending, i) ==
    [pending EXCEPT !.preview.pending_changes = SubSeq(@, 1, i)]

RemoveAt(calls, k) == SubSeq(calls, 1, k - 1) \o SubSeq(calls, k + 1, Len(calls))

\* the call as far as its first await: pendingSyncs.get, the error if there
\* is no session, else fs.mkdir(pending.installPath) is issued
ConfirmSyncBegin(previewId) ==
    /\ Len(inflight) < MaxCalls
    /\ IF ~HasPending(pendingSyncs, previewId)
       THEN /\ last' = [NoCall EXCEPT !.op = "confirm_sync", !.id = previewId,
                                      !.outcome = NotFound(fs, pendingSyncs).outcome]
            /\ UNCHANGED <<fs, inflight>>
       ELSE /\ fs' = MkdirInstallPath(fs, pendingSyncs[previewId].installPath)
            /\ inflight' = Append(inflight, Suspended(previewId, pendingSyncs[previewId]))
            /\ last' = [NoCall EXCEPT !.op = "confirm_sync", !.mode = "suspended",
                                      !.id = previewId]
    /\ UNCHANGED <<catalog, config, detectedStack, pendingSyncs, nextId, now, confirmed,
                   resolving, registries, cacheFiles, today, localStack,
                   skillFiles, cachedBundles, bundlesCache, defaultAgent, configFile,
                   context>>

\* call k resumes from its await: it deals with its next pending change and
\* waits for the installSkill or uninstallSkill it issued, or, the loop being
\* over, deletes the session and returns its result
ConfirmSyncResume(k) ==
    /\ k \in 1..Len(inflight)
    /\ LET call == inflight[k]
           changes == call.pending.preview.pending_changes
       IN  IF call.done < Len(changes)
           THEN /\ fs' = ApplyPending(fs, EmptyResult(<<>>, <<>>),
                                      UpTo(call.pending, call.done + 1), call.done + 1,
                                      NoList, NoList, NoFault).fs
                /\ inflight' = [inflight EXCEPT ![k].done = @ + 1]
                /\ last' = [NoCall EXCEPT !.op = "confirm_sync", !.mode = "suspended",
                                          !.id = call.id]
                /\ UNCHANGED <<pendingSyncs, confirmed>>
           ELSE /\ pendingSyncs' = DeletePending(pendingSyncs, call.id)
                /\ inflight' = RemoveAt(inflight, k)
                /\ last' = [NoCall EXCEPT !.op = "confirm_sync", !.id = call.id,
                                          !.changes = changes,
                                          !.created = call.pending.timestamp,
                                          !.outcome = "ok"]
                /\ confirmed' = confirmed \cup {call.id}
                /\ UNCHANGED fs
    /\ UNCHANGED <<catalog, config, detectedStack, nextId, now,
                   resolving, registries, cacheFiles, today, localStack,
                   skillFiles, cachedBundles, bundlesCache, defaultAgent, configFile,
                   context>>

RaceNext ==
    \/ PreviewSyncTool
    \/ \E previewId \in 1..MaxPreviews : ConfirmSyncBegin(previewId)
    \/ \E k \in 1..MaxCalls : ConfirmSyncResume(k)

RaceSpec == Init /\ [][RaceNext]_vars

-----------------------------------------------------------------------------
(* Syncs followed by a new preview: sync_skills with every agent parameter,  *)
(* previews, confirmations and uninstall_skill, over catalogs whose SKILL.md *)
(* documents declare the version of the index, another version, or none     *)

\* the catalog with the frontmatter of the SKILL.md served for each entry
WithFrontmatter(skills, versions) ==
    [i \in 1..Len(skills) |->
        [name |-> skills[i].name, version |-> skills[i].version,
         dependencies |-> skills[i].dependencies, triggers |-> skills[i].triggers,
         frontmatter |-> [version |-> versions[i]]]]

ConvergeCatalogs ==
    { WithFrontmatter(Registry, <<"1.0.0", "1.0.0">>),
      WithFrontmatter(Registry, <<"0.9.0", "1.0.0">>),
      WithFrontmatter(Registry, <<"1.0.0", NoVersion>>) }

\* the configurations: those of Configs, one that syncs both agents and
\* removes, and one that overrides the install path of Claude
ConvergeConfigs ==
    Configs \cup {[DEFAULT_CONFIG EXCEPT !.agent.sync_both = TRUE, !.sync.auto_remove = TRUE],
                  [DEFAULT_CONFIG EXCEPT !.agent_overrides.claude = ".github/skills"]}

ConvergeInit ==
    /\ catalog \in ConvergeCatalogs
    /\ resolving = NotResolving
    /\ config \in ConvergeConfigs
    /\ detectedStack \in Stacks
    /\ fs \in InitialFs
    /\ pendingSyncs = NoSessions
    /\ nextId = 0
    /\ now = 0
    /\ last = NoCall
    /\ confirmed = {}
    /\ NoRegistryClient
    /\ localStack = EmptyStack
    /\ Untouched

\* the calls: every agent parameter without a fault and one failing sync, the
\* default confirmation with and without a fault and one selective one
ConvergeSyncs ==
    {[agent |-> a, fault |-> NoFault] : a \in AgentsArgs}
        \cup {[agent |-> "auto", fault |-> [name |-> "react", stage |-> "content"]]}
ConvergeConfirms ==
    {call \in ConfirmCalls :
        /\ call.rejected = NoList
        /\ call.fault \in {NoFault, [name |-> "react", stage |-> "content"]}}

ConvergeNext ==
    \/ \E call \in ConvergeSyncs : SyncSkillsImmediate(TRUE, call.agent, call.fault)
    \/ PreviewSyncTool
    \/ \E previewId \in 1..MaxPreviews, call \in ConvergeConfirms :
            ConfirmSyncTool(previewId, call.approved, call.rejected, call.fault)
    \/ \E skillName \in UninstallNames : UninstallSkillTool(skillName)

ConvergeSpec == ConvergeInit /\ [][ConvergeNext]_vars

-----------------------------------------------------------------------------
(* Properties of the preview / confirm sessions and of what a sync applies *)

\* the calls that go through previewSync
PreviewCall(call) ==
    \/ call.op = "preview_sync"
    \/ call.op = "sync_skills" /\ call.mode \in {"dry_run", "confirm_first"}

\* a pending change has been applied in file system f under installPath
AppliedIn(f, installPath, change) ==
    IF change.action = "remove"
    THEN f.skills[installPath][change.name] = Absent
    ELSE f.skills[installPath][change.name] = change.version

\* the install path of the sessions of a behaviour
SessionPath == getInstallPath(Profile, config)

\* C1: session single-use.  Once a confirmSync call on a session id has
\* completed, every later confirmSync call on that id fails with the
\* "not found or expired" error and installs or uninstalls nothing.
C1_SessionSingleUse ==
    [][(last'.op = "confirm_sync" /\ last'.id \in confirmed)
          => /\ last'.outcome = "not found or expired"
             /\ fs' = fs]_vars

\* a second confirm_sync on an id whose confirmation had completed has failed
C1_ConfirmedTwice ==
    /\ last.op = "confirm_sync"
    /\ last.id \in confirmed
    /\ last.outcome = "not found or expired"

\* C2 as stated: a confirmSync call that names a session older than five
\* minutes fails with the "not found or expired" error and applies no change.
C2_OldSessionFailsLookup ==
    [][(/\ last'.op = "confirm_sync"
        /\ last'.id \in DOMAIN pendingSyncs
        /\ pendingSyncs[last'.id].timestamp < now - FiveMinutes)
          => /\ last'.outcome = "not found or expired"
             /\ fs' = fs]_vars

\* C2, amended: session expiry happens at the next preview.  A previewSync
\* call removes from the table exactly the sessions older than five minutes
\* at that moment; a confirmSync call fails with "not found or expired" when
\* the id it names is no longer in the table, and finds the session, whatever
\* its age, as long as no preview has swept it.
C2_ExpiryAtNextPreview ==
    [][/\ PreviewCall(last')
            => DOMAIN pendingSyncs' =
                  {id \in DOMAIN pendingSyncs :
                      ~(pendingSyncs[id].timestamp < now - FiveMinutes)} \cup {last'.id}
       /\ (last'.op = "confirm_sync" /\ last'.id \in DOMAIN pendingSyncs)
            => last'.outcome # "not found or expired"
       /\ (last'.op = "confirm_sync" /\ last'.id \notin DOMAIN pendingSyncs)
            => last'.outcome = "not found or expired" /\ fs' = fs]_vars

\* a session older than five minutes has just been confirmed and applied
C2_OldSessionConfirmed ==
    /\ last.op = "confirm_sync"
    /\ last.outcome = "ok"
    /\ last.created < now - FiveMinutes
    /\ last.changes # <<>>

\* C3: a confirmSync call naming an id that is not in the session table fails
\* with the explicit "not found or expired" error and leaves both the
\* installation directory and the session table unchanged.
C3_UnknownIdRejected ==
    [][(last'.op = "confirm_sync" /\ last'.id \notin DOMAIN pendingSyncs)
          => /\ last'.outcome = "not found or expired"
             /\ fs' = fs
             /\ pendingSyncs' = pendingSyncs]_vars

\* confirm_sync has just failed on an id that was never issued, while the
\* table holds a session and the installation directory holds a skill
C3_NeverIssuedId ==
    /\ last.op = "confirm_sync"
    /\ last.outcome = "not found or expired"
    /\ last.id > nextId
    /\ pendingSyncs # NoSessions
    /\ \E n \in SkillNames : fs.skills[SessionPath][n] \in Versions

\* C4 as stated: a session enters the table only with at least one pending
\* change, and never on behalf of an immediate, unconfirmed apply.
C4_StoredOnlyWithChanges ==
    [][\A id \in DOMAIN pendingSyncs' \ DOMAIN pendingSyncs :
          /\ Len(pendingSyncs'[id].preview.pending_changes) > 0
          /\ ~(last'.op = "sync_skills" /\ last'.mode = "immediate")]_vars

\* C4, amended: every call that goes through previewSync stores a session
\* under a new id, whether or not the diff has a pending change; no other
\* call, an immediate apply included, adds a session to the table.
C4_StoredByEveryPreview ==
    [][/\ PreviewCall(last')
            => last'.id \notin DOMAIN pendingSyncs /\ last'.id \in DOMAIN pendingSyncs'
       /\ ~PreviewCall(last')
            => DOMAIN pendingSyncs' \subseteq DOMAIN pendingSyncs]_vars

\* a preview with no pending change has just been stored as a session
C4_EmptyDiffStored ==
    /\ PreviewCall(last)
    /\ last.id \in DOMAIN pendingSyncs
    /\ pendingSyncs[last.id].preview.pending_changes = <<>>

\* C5 as stated: a sync_skills call in dry-run or in force-immediate mode
\* allocates no session id and adds no entry to the session table.
C5_DryRunAndImmediateStoreNothing ==
    [][(last'.op = "sync_skills" /\ last'.mode \in {"dry_run", "immediate"})
          => /\ nextId' = nextId
             /\ DOMAIN pendingSyncs' \subseteq DOMAIN pendingSyncs]_vars

\* C5, amended: a sync in force-immediate mode, and a syncSkills call with
\* dryRun, allocate no session id and leave the session table alone; a
\* sync_skills call with dry_run = true allocates a new id and stores a
\* session under it.
C5_OnlyImmediateStoresNothing ==
    [][/\ ((last'.op = "sync_skills" /\ last'.mode = "immediate") \/ last'.op = "syncSkills")
            => nextId' = nextId /\ pendingSyncs' = pendingSyncs
       /\ (last'.op = "sync_skills" /\ last'.mode = "dry_run")
            => /\ nextId' = nextId + 1
               /\ last'.id = nextId'
               /\ last'.id \in DOMAIN pendingSyncs']_vars

\* a dry run has just stored a session with pending changes, which a later
\* confirm_sync can apply
C5_DryRunSession ==
    /\ last.op = "sync_skills"
    /\ last.mode = "dry_run"
    /\ last.id \in DOMAIN pendingSyncs
    /\ pendingSyncs[last.id].preview.pending_changes # <<>>

\* C6 as stated: a preview changes nothing in the installation directory,
\* which only confirm, immediate sync, install, uninstall and reset change.
C6_OnlyTheListedCallsWrite ==
    [][/\ (PreviewCall(last') \/ last'.op = "syncSkills") => fs' = fs
       /\ fs' # fs
            => \/ last'.op \in {"confirm_sync", "install_skill", "uninstall_skill",
                                "reset_skills"}
               \/ last'.op = "sync_skills" /\ last'.mode = "immediate"]_vars

\* C6, amended: a preview (preview_sync, sync_skills with dry_run,
\* sync_skills in confirm-first mode, syncSkills with dryRun) changes nothing
\* in the installation directory, which only confirm, immediate sync,
\* install, uninstall, reset and setup with auto_install change.
C6_PreviewLeavesDirectory ==
    [][/\ (PreviewCall(last') \/ last'.op = "syncSkills") => fs' = fs
       /\ fs' # fs
            => \/ last'.op \in {"confirm_sync", "install_skill", "uninstall_skill",
                                "reset_skills"}
               \/ last'.op = "sync_skills" /\ last'.mode = "immediate"
               \/ last'.op = "setup" /\ last'.mode = "auto_install"]_vars

\* a preview has just reported a skill to add, and its directory is still absent
C6_PreviewedNotInstalled ==
    /\ PreviewCall(last)
    /\ last.id \in DOMAIN pendingSyncs
    /\ \E i \in 1..Len(pendingSyncs[last.id].preview.pending_changes) :
          LET change == pendingSyncs[last.id].preview.pending_changes[i]
          IN  /\ change.action = "add"
              /\ fs.skills[pendingSyncs[last.id].installPath][change.name] = Absent

\* C7: a pending change whose name is in the rejected list is not applied by
\* confirmSync, even when the name is in the approved list too.
C7_RejectedWins ==
    [][(last'.op = "confirm_sync" /\ last'.id \in DOMAIN pendingSyncs /\ last'.rejected.given)
          => \A i \in 1..Len(pendingSyncs[last'.id].preview.pending_changes) :
                LET change == pendingSyncs[last'.id].preview.pending_changes[i]
                    installPath == pendingSyncs[last'.id].installPath
                IN  Includes(last'.rejected.names, change.name)
                      => fs'.skills[installPath][change.name]
                            = fs.skills[installPath][change.name]]_vars

\* a confirm_sync naming a pending add in both lists has completed, and the
\* skill is still not installed
C7_ApprovedAndRejected ==
    /\ last.op = "confirm_sync"
    /\ last.outcome = "ok"
    /\ last.approved.given
    /\ last.rejected.given
    /\ \E i \in 1..Len(last.changes) :
          /\ last.changes[i].action = "add"
          /\ Includes(last.approved.names, last.changes[i].name)
          /\ Includes(last.rejected.names, last.changes[i].name)
          /\ fs.skills[SessionPath][last.changes[i].name] = Absent

\* C8: a confirmSync call given neither list applies every pending change of
\* the session: each add or update is installed under the session's install
\* path, each remove has its directory deleted.
C8_DefaultAppliesAll ==
    [][(/\ last'.op = "confirm_sync"
        /\ last'.outcome = "ok"
        /\ ~last'.approved.given
        /\ ~last'.rejected.given)
          => /\ last'.id \in DOMAIN pendingSyncs
             /\ \A i \in 1..Len(pendingSyncs[last'.id].preview.pending_changes) :
                   AppliedIn(fs', pendingSyncs[last'.id].installPath,
                             pendingSyncs[last'.id].preview.pending_changes[i])]_vars

\* a confirm_sync without lists has completed on a session with an add and
\* another change, and both are in place
C8_AllApplied ==
    /\ last.op = "confirm_sync"
    /\ last.outcome = "ok"
    /\ ~last.approved.given
    /\ ~last.rejected.given
    /\ Len(last.changes) >= 2
    /\ \E i \in 1..Len(last.changes) : last.changes[i].action = "add"
    /\ \A i \in 1..Len(last.changes) : AppliedIn(fs, SessionPath, last.changes[i])

\* the faults under which the installation of a skill throws
InstallFaults == Faults \ {NoFault}

\* what confirm_sync without lists does to session id under a fault
ConfirmUnder(id, fault) ==
    confirmSync(fs, pendingSyncs, id, NoList, NoList, Profile, fault)

\* what an immediate sync_skills does under a fault
SyncUnder(fault) ==
    syncSkills(fs, detectedStack, Installed, [dryRun |-> FALSE, agent |-> "auto"],
               config, Profile, catalog, fault)

\* match i of an immediate sync has to be installed
NeedsInstall(resolvedSkills, i) ==
    LET k == FindIndex(Installed, resolvedSkills[i].skill.name)
    IN  k = 0 \/ Installed[k].version # resolvedSkills[i].skill.version

C10_DiffClassification ==
    \A id \in DOMAIN pendingSyncs :
        LET pending == pendingSyncs[id]
            changes == pending.preview.pending_changes
        IN  \A m \in 1..Len(pending.matches) :
               LET skill == pending.matches[m].skill
                   k == FindIndex(pending.installedSkills, skill.name)
                   ofSkill == {i \in 1..Len(changes) : changes[i].name = skill.name}
               IN  IF k = 0
                   THEN \E i \in ofSkill :
                           /\ ofSkill = {i}
                           /\ changes[i].action = "add"
                           /\ changes[i].version = skill.version
                   ELSE IF pending.installedSkills[k].version = skill.version
                   THEN ofSkill = {}
                   ELSE \E i \in ofSkill :
                           /\ ofSkill = {i}
                           /\ changes[i].action = "update"
                           /\ changes[i].oldVersion = pending.installedSkills[k].version
                           /\ changes[i].version = skill.version

\* a stored preview reports one add and one update from 0.9.0 to 1.0.0
C10_AddAndUpdate ==
    \E id \in DOMAIN pendingSyncs :
        LET changes == pendingSyncs[id].preview.pending_changes
        IN  /\ \E i \in 1..Len(changes) : changes[i].action = "add"
            /\ \E i \in 1..Len(changes) :
                  /\ changes[i].action = "update"
                  /\ changes[i].oldVersion = "0.9.0"
                  /\ changes[i].version = "1.0.0"

-----------------------------------------------------------------------------
(* Properties of the resolved set: removal policy, manual lists, dependencies *)

\* the names of a sequence of matches, of installed skills or of changes
NamesOf(matches) == {matches[i].skill.name : i \in 1..Len(matches)}
InstalledNames(installedSkills) == {installedSkills[i].name : i \in 1..Len(installedSkills)}

\* the tool calls that preview, confirm or apply a sync
SyncCall(call) == call.op \in {"preview_sync", "sync_skills", "confirm_sync"}

\* the skills a file system holds with a readable SKILL.md, path by path
Holds(f, p, n) == f.skills[p][n] \in Versions

\* C11: additive by default.  The diff of a session holds a remove entry for
\* a name if and only if auto_remove is on, the name was installed and the
\* name is not in the resolved set; and with auto_remove off no preview,
\* confirm or immediate sync makes an installed skill disappear from any
\* installation directory.
C11_AdditiveByDefault ==
    [][/\ \A id \in DOMAIN pendingSyncs' :
             LET pending == pendingSyncs'[id]
                 changes == pending.preview.pending_changes
             IN  \A n \in SkillNames :
                    (\E i \in 1..Len(changes) :
                        changes[i].action = "remove" /\ changes[i].name = n)
                    <=> /\ config.sync.auto_remove
                        /\ n \in InstalledNames(pending.installedSkills)
                        /\ n \notin NamesOf(pending.matches)
       /\ (SyncCall(last') /\ ~config.sync.auto_remove)
             => \A p \in Paths, n \in SkillNames : Holds(fs, p, n) => Holds(fs', p, n)
      ]_vars

\* with auto_remove off, a confirmSync has applied a session whose diff is not
\* empty, and a skill that is installed but not in the session's resolved
\* set is still there
C11_KeptThoughNotRequired ==
    /\ ~config.sync.auto_remove
    /\ last.op = "confirm_sync" /\ last.outcome = "ok" /\ last.changes # <<>>
    /\ \E n \in SkillNames :
          /\ Holds(fs, SessionPath, n)
          /\ n \notin NamesOf(FinalSkills(detectedStack, config, catalog))

\* the matches of a session for one name
MatchesFor(matches, n) == {i \in 1..Len(matches) : matches[i].skill.name = n}

\* what detection alone matches in this project
Discovered == matchSkillsToStack(detectedStack, catalog)

\* the always_include names the catalog has and always_exclude does not name
Includable ==
    {n \in Range(config.skills.always_include) :
        FindIndex(catalog, n) # 0 /\ ~Includes(config.skills.always_exclude, n)}

\* C13 as stated, for the names that the catalog has and that are not
\* excluded: every always_include name is in the matches of a session with
\* confidence 1.0 and provenance manual, detected or not.
C13_ManualWhateverDetected ==
    \A id \in DOMAIN pendingSyncs :
        LET matches == pendingSyncs[id].matches
        IN  \A n \in Includable :
               \E i \in MatchesFor(matches, n) :
                  matches[i].confidence = 1000 /\ matches[i].source = "manual"

\* C13, amended: an always_include name is in the matches of a session
\* exactly once if the catalog has it and always_exclude does not name it,
\* and not at all otherwise; its match has confidence 1.0 and provenance
\* manual when detection did not match the name, and is the match of
\* detection, with its confidence and provenance discovery, when it did.
C13_ManualUnlessDetected ==
    \A id \in DOMAIN pendingSyncs :
        LET matches == pendingSyncs[id].matches
        IN  \A k \in 1..Len(config.skills.always_include) :
               LET n == config.skills.always_include[k]
                   d == MatchesFor(Discovered, n)
               IN  IF n \notin Includable THEN MatchesFor(matches, n) = {}
                   ELSE \E i \in MatchesFor(matches, n) :
                           /\ MatchesFor(matches, n) = {i}
                           /\ IF d = {}
                              THEN /\ matches[i].confidence = 1000
                                   /\ matches[i].source = "manual"
                              ELSE \E j \in d : matches[i] = Discovered[j]

\* a session of a project where react is both detected and listed in
\* always_include: its match for react is the discovered one
C13_DetectedAndIncluded ==
    /\ config.skills.always_include = <<"react">>
    /\ MatchesFor(Discovered, "react") # {}
    /\ \E id \in DOMAIN pendingSyncs :
          LET matches == pendingSyncs[id].matches
          IN  \E i \in MatchesFor(matches, "react") :
                 matches[i].source = "discovery" /\ matches[i].confidence = 950

\* C14: exclusion wins.  No name listed in always_exclude is in the resolved
\* set that a sync would apply, nor in the matches of a session, nor added or
\* updated by the diff of a session, even when a match that is not excluded
\* has it as a dependency.
C14_ExcludedNeverResolved ==
    \A n \in Range(config.skills.always_exclude) :
        /\ MatchesFor(FinalSkills(detectedStack, config, catalog), n) = {}
        /\ \A id \in DOMAIN pendingSyncs :
              LET pending == pendingSyncs[id]
                  changes == pending.preview.pending_changes
              IN  /\ MatchesFor(pending.matches, n) = {}
                  /\ \A i \in 1..Len(changes) :
                        changes[i].name = n => changes[i].action = "remove"

\* a session whose matches hold a skill that depends on typescript although
\* typescript is excluded
C14_DependencyExcluded ==
    /\ config.skills.always_exclude = <<"typescript">>
    /\ \E id \in DOMAIN pendingSyncs :
          LET matches == pendingSyncs[id].matches
          IN  \E i \in 1..Len(matches) :
                 Includes(matches[i].skill.dependencies, "typescript")

\* the names reachable from the names of S along the dependency lists of
\* the catalog, as far as the catalog has them
RECURSIVE Closure(_, _)
Closure(S, availableSkills) ==
    LET more == {availableSkills[i].name : i \in DOMAIN availableSkills}
                   \cap UNION {Range(availableSkills[i].dependencies) :
                                 i \in {k \in DOMAIN availableSkills :
                                           availableSkills[k].name \in S}}
    IN  IF more \subseteq S THEN S ELSE Closure(S \cup more, availableSkills)

\* C15: dependency resolution terminates on every catalog, cyclic ones
\* included, and returns every skill reachable from the matches exactly once:
\* in a catalog where typescript and react depend on each other, the two of
\* them, once each.
C15_ResolutionTerminates ==
    /\ <>(resolving.pc = "done")
    /\ [](resolving.pc = "done"
            => /\ \A n \in SkillNames : Cardinality(MatchesFor(resolving.resolved, n)) <= 1
               /\ NamesOf(resolving.resolved) = Closure(NamesOf(resolving.matches), catalog)
               /\ resolving.resolved = resolveDependencies(resolving.matches, catalog))

\* the call on the match of typescript has returned typescript and react,
\* in the catalog where each depends on the other
C15_CycleResolved ==
    /\ catalog = CyclicCatalog
    /\ resolving.pc = "done"
    /\ NamesOf(resolving.matches) = {"typescript"}
    /\ Len(resolving.resolved) = 2
    /\ NamesOf(resolving.resolved) = {"typescript", "react"}

\* the project of the scenario: Next.js, detected with confidence 0.95
NextjsStack == [EmptyStack EXCEPT !.frameworks = <<Detected("nextjs")>>]

\* a session of the scenario: the Next.js project, the catalog where nextjs
\* needs typescript and react and react needs typescript, nothing excluded,
\* nothing installed when the preview was made
NextjsScenario(pending) ==
    /\ detectedStack = NextjsStack
    /\ catalog = MockSkills
    /\ config.skills.always_exclude = <<>>
    /\ pending.installedSkills = <<>>

\* C16: in the scenario the pending changes of the preview are adds only, of
\* typescript, react and nextjs, each exactly once.
C16_NextjsAddsThree ==
    \A id \in DOMAIN pendingSyncs :
        LET changes == pendingSyncs[id].preview.pending_changes
        IN  NextjsScenario(pendingSyncs[id])
               => /\ \A i \in 1..Len(changes) : changes[i].action = "add"
                  /\ {changes[i].name : i \in 1..Len(changes)}
                        = {"typescript", "react", "nextjs"}
                  /\ Len(changes) = 3

\* a preview of the scenario is stored, under the default configuration
C16_NextjsPreviewed ==
    /\ config = DEFAULT_CONFIG
    /\ \E id \in DOMAIN pendingSyncs :
          /\ NextjsScenario(pendingSyncs[id])
          /\ Len(pendingSyncs[id].preview.pending_changes) = 3

-----------------------------------------------------------------------------
(* Properties of install_skill and uninstall_skill *)

\* the call that has just returned asked for something that is not there: an
\* install of a name the catalog lacks, an uninstall of a name the
\* installation directory lacks
MissingTarget(call) == call.op \in {"install_skill", "uninstall_skill"} /\ ~call.present

\* C12 as stated: an install naming a package absent from the catalog, or an
\* uninstall naming a package absent from the installation directory, ends
\* with a "not found" result.
C12_MissingTargetNotFound ==
    [][MissingTarget(last') => last'.outcome \in {"not found in registry", "not found"}]_vars

\* C12, amended: neither call throws and neither touches the installation
\* directories; the install of a name absent from the catalog answers "not
\* found in registry", the uninstall of a name absent from the installation
\* directory answers success.
C12_MissingTargetResult ==
    [][MissingTarget(last')
          => /\ fs' = fs
             /\ last'.op = "install_skill" => last'.outcome = "not found in registry"
             /\ last'.op = "uninstall_skill" => last'.outcome = "ok"]_vars

\* an uninstall_skill of react has just returned success although no react
\* directory was there
C12_UninstalledNothing ==
    /\ last.op = "uninstall_skill" /\ last.name = "react"
    /\ ~last.present /\ last.outcome = "ok"

-----------------------------------------------------------------------------
(* Properties of the registry client *)

\* the entries named n in a sequence of skills
EntriesFor(skills, n) == {i \in 1..Len(skills) : skills[i].name = n}

\* the registries whose index, as used by the call, declares a skill named n
Declaring(call, n) ==
    {r \in 1..Len(registries) : EntriesFor(call.served[registries[r].url].skills, n) # {}}

\* C17: priority precedence.  When the indexes of two registries both declare
\* a skill of some name, the catalog getAllSkills returns holds exactly one
\* skill of that name, and it is the one of the registry with the lower
\* priority number: its version, and a path under its url.
C17_PriorityPrecedence ==
    [][last'.op = "getAllSkills"
          => \A n \in SkillNames :
                LET declaring == Declaring(last', n)
                IN  Cardinality(declaring) = 2
                       => \E r \in declaring, i \in EntriesFor(catalog', n) :
                             /\ \A q \in declaring : registries[r].priority <= registries[q].priority
                             /\ EntriesFor(catalog', n) = {i}
                             /\ \E k \in EntriesFor(last'.served[registries[r].url].skills, n) :
                                   catalog'[i].version
                                      = last'.served[registries[r].url].skills[k].version
                             /\ SubSeq(catalog'[i].path, 1, Len(registries[r].url))
                                   = registries[r].url]_vars

\* the call has just returned a catalog with typescript 1.0.0 of the primary
\* registry although the secondary registry served typescript 2.0.0
C17_BothDeclareTypescript ==
    /\ last.op = "getAllSkills"
    /\ \E k \in EntriesFor(last.served[SecondaryUrl].skills, "typescript") :
          last.served[SecondaryUrl].skills[k].version = "2.0.0"
    /\ \E i \in EntriesFor(catalog, "typescript") : catalog[i].version = "1.0.0"

\* whether a cache file may be served on a given day without fetching
Fresh(cached, forceRefresh, date) ==
    ~forceRefresh /\ cached.readable /\ date - cached.fetched_at < CacheMaxAgeDays

\* C18: cache freshness.  For each registry, getAllSkills serves the index of
\* the cache file without fetching if and only if forceRefresh is false, the
\* file is there and it is less than cacheMaxAgeDays old; otherwise it
\* fetches, and a fetch that succeeds overwrites the cache file with the
\* fetched index and the time of the call (one that fails leaves the file as
\* it was).
C18_CacheFreshness ==
    [][last'.op = "getAllSkills"
          => \A r \in 1..Len(registries) :
                LET url == registries[r].url
                    cached == cacheFiles[url]
                    answer == last'.answers[url]
                IN  /\ url \notin last'.fetched <=> Fresh(cached, last'.forceRefresh, today)
                    /\ IF Fresh(cached, last'.forceRefresh, today)
                       THEN /\ last'.served[url] = cached.index
                            /\ cacheFiles'[url] = cached
                       ELSE IF answer.threw
                       THEN cacheFiles'[url] = cached
                       ELSE /\ last'.served[url] = answer.index
                            /\ cacheFiles'[url] = CacheFile(url, today, answer.index)]_vars

\* the call has just served the primary registry from a cache file written
\* six days earlier, although the registry had another index to offer
C18_SixDayOldCacheServed ==
    /\ last.op = "getAllSkills" /\ ~last.forceRefresh
    /\ PrimaryUrl \notin last.fetched
    /\ today = CacheMaxAgeDays - 1
    /\ cacheFiles[PrimaryUrl].readable /\ cacheFiles[PrimaryUrl].fetched_at = 0
    /\ ~last.answers[PrimaryUrl].threw
    /\ last.answers[PrimaryUrl].index # last.served[PrimaryUrl]

-----------------------------------------------------------------------------
(* Properties of the evidence sources: failures, and the merge of detections *)

\* the registries of the client without those whose fetch failed
Remaining(regs, failed) == SelectSeq(regs, LAMBDA registry : registry.url \notin failed)

\* the tiers of the detector without those that failed
Without(use, failed) ==
    [sbom |-> use.sbom /\ "github-sbom" \notin failed,
     specfy |-> use.specfy /\ "specfy" \notin failed,
     local |-> use.local /\ "local" \notin failed]

\* C19: a registry whose fetch fails, or a detector tier that fails, never
\* aborts the operation: getAllSkills and detect return, and what they return
\* is what they would have returned had the failed registries not been
\* configured and the failed tiers not been enabled.
C19_FailedSourceContributesNothing ==
    [][ /\ last'.op = "getAllSkills" =>
            /\ last'.outcome = "returned"
            /\ catalog' = getAllSkills(Remaining(registries, last'.failed),
                              last'.forceRefresh, cacheFiles, last'.answers, today).allSkills
        /\ last'.op = "detect" =>
            /\ last'.outcome = "returned"
            /\ LET rest == detect(Without(last'.use, last'.failed), last'.answers)
               IN  detectedStack' = rest.stack /\ last'.sources = rest.sources
      ]_vars

\* detect has just returned a stack although fetchSBOM threw, in a process
\* whose catalog holds the skills of the secondary registry while no fetch of
\* the primary one ever succeeded
C19_BothSurvivedAFailure ==
    /\ last.op = "detect" /\ "github-sbom" \in last.failed
    /\ detectedStack # EmptyStack
    /\ catalog # <<>>
    /\ ~cacheFiles[PrimaryUrl].readable /\ cacheFiles[SecondaryUrl].readable

\* the stack the detector of a call merges into, before and after the call
StackBefore(call) ==
    IF call.detector = "ProjectDetector" THEN localStack ELSE detectedStack
StackAfter(call) ==
    IF call.detector = "ProjectDetector" THEN localStack' ELSE detectedStack'

Max(a, b) == IF a > b THEN a ELSE b

\* C21: when addDetection merges a detection into the entry of the same
\* category and id, the confidence of the merged entry is the larger of the
\* confidence of the entry and the confidence of the detection.
C21_ConfidenceWins ==
    [][ last'.op = "addDetection" =>
            LET call == last'
                i == FindDetection(StackBefore(call)[call.category], call.detection.id)
            IN  i # 0 =>
                    StackAfter(call)[call.category][i].confidence =
                        Max(StackBefore(call)[call.category][i].confidence,
                            call.detection.confidence)
      ]_vars

\* the ProjectDetector has just been handed a detection of confidence 0.85
\* for a technology whose entry stands at 0.95
C21_LowerMergedIntoHigher ==
    /\ last.op = "addDetection" /\ last.detector = "ProjectDetector"
    /\ last.detection.confidence = 850
    /\ LET i == FindDetection(localStack[last.category], last.detection.id)
       IN  i # 0 /\ localStack[last.category][i].confidence = 950

\* the three tier blocks of detect, as they stand in the source
TierNames == {"github-sbom", "specfy", "local"}

\* the block of one tier: its condition, its try, and its merge into the stack
MergeTier(tier, use, answers, stack) ==
    CASE tier = "github-sbom" ->
            IF use.sbom /\ ~answers.sbom.threw /\ Len(answers.sbom.packages) > 0
            THEN mergeFromSBOM(stack, answers.sbom.packages) ELSE stack
      [] tier = "specfy" ->
            IF use.specfy /\ ~answers.specfy.threw
            THEN mergeFromSpecfy(stack, answers.specfy.payload) ELSE stack
      [] tier = "local" ->
            IF use.local /\ ~answers.local.threw
            THEN mergeFromLocal(stack, answers.local.stack) ELSE stack

\* the orders in which the three blocks could stand
TierOrders ==
    {order \in TierNames \X TierNames \X TierNames :
        order[1] # order[2] /\ order[1] # order[3] /\ order[2] # order[3]}

\* the stack obtained when the blocks run in the given order
MergeTiers(order, use, answers) ==
    MergeTier(order[3], use, answers,
        MergeTier(order[2], use, answers,
            MergeTier(order[1], use, answers, EmptyStack)))

\* a stack without the positions of its arrays: the entries of each category
EntrySets(stack) == [category \in DOMAIN stack |-> Range(stack[category])]

\* a stack reduced to the identity and the confidence of its entries, and to
\* whether each has a version
ConfidenceSets(stack) ==
    [category \in DOMAIN stack |->
        {<<stack[category][i].id, stack[category][i].confidence,
           Truthy(stack[category][i].version)>> : i \in 1..Len(stack[category])}]

\* C22 as stated: whatever the order in which the tiers of detect are run and
\* merged, the stack holds the same entries.
C22_OrderIndependent ==
    [][ last'.op = "detect" =>
            \A order \in TierOrders :
                EntrySets(MergeTiers(order, last'.use, last'.answers))
                    = EntrySets(detectedStack')
      ]_vars

\* C22, amended: whatever the order in which the tiers of detect are run and
\* merged, the stack holds the same technologies in the same categories, each
\* with the same confidence and with a version in the same cases; the source
\* and the version of an entry that two tiers report with equal confidence
\* are those of the tier that ran first.
C22_OrderIndependentConfidences ==
    [][ last'.op = "detect" =>
            /\ MergeTiers(<<"github-sbom", "specfy", "local">>, last'.use, last'.answers)
                    = detectedStack'
            /\ \A order \in TierOrders :
                    ConfidenceSets(MergeTiers(order, last'.use, last'.answers))
                        = ConfidenceSets(detectedStack')
      ]_vars

\* detect has just merged the SBOM tier and the local tier, which both report
\* react at 0.95: the entry kept is the one of the SBOM tier
C22_TieBetweenTiers ==
    /\ last.op = "detect"
    /\ ~last.answers.sbom.threw /\ ~last.answers.local.threw /\ last.use.sbom
    /\ \E i \in 1..Len(detectedStack.frameworks), j \in 1..Len(localStack.frameworks) :
            /\ detectedStack.frameworks[i].id = "react"
            /\ localStack.frameworks[j].id = "react"
            /\ detectedStack.frameworks[i].confidence = localStack.frameworks[j].confidence
            /\ detectedStack.frameworks[i].source = "github-sbom"
            /\ localStack.frameworks[j].source = "package.json"

\* C23: merging into a stack the detection that has just been merged into it
\* leaves the stack as it is, with either addDetection.
C23_MergeIdempotent ==
    [][ last'.op = "addDetection" =>
            /\ last'.detector = "EnhancedProjectDetector" =>
                   addDetection(detectedStack', last'.category, last'.detection)
                        = detectedStack'
            /\ last'.detector = "ProjectDetector" =>
                   ProjectDetector_addDetection(localStack', last'.detection) = localStack'
      ]_vars

\* the enhanced detector has just merged a versioned detection of confidence
\* 0.85 into an entry of confidence 0.95, which differs from it
C23_MergedIntoAnother ==
    /\ last.op = "addDetection" /\ last.detector = "EnhancedProjectDetector"
    /\ last.detection.confidence = 850 /\ Truthy(last.detection.version)
    /\ LET i == FindDetection(detectedStack[last.category], last.detection.id)
       IN  /\ i # 0
           /\ detectedStack[last.category][i].confidence = 950
           /\ detectedStack[last.category][i].version = last.detection.version

\* the entries of a list have pairwise different ids
UniqueIds(list) ==
    \A i \in 1..Len(list), j \in 1..Len(list) : list[i].id = list[j].id => i = j

\* C30: whatever detections were merged so far, no category of the stack of
\* either detector holds two entries with the same id.
C30_OneEntryPerId ==
    \A category \in DOMAIN EmptyStack :
        UniqueIds(detectedStack[category]) /\ UniqueIds(localStack[category])

\* both stacks hold react and typescript, and the detection merged last met an
\* entry of its id with another confidence
C30_MergedRepeatedly ==
    /\ last.op = "addDetection"
    /\ Len(detectedStack.languages) = 1 /\ Len(detectedStack.frameworks) = 1
    /\ Len(localStack.languages) = 1 /\ Len(localStack.frameworks) = 1
    /\ LET stack == IF last.detector = "ProjectDetector" THEN localStack ELSE detectedStack
       IN  stack[last.category][1].confidence # last.detection.confidence

-----------------------------------------------------------------------------
(* Properties of installSkill and uninstallSkill *)

\* C24: installSkill overwrites SKILL.md, and installing again what has just
\* been installed leaves every file as it is; uninstallSkill returns without
\* an error, changes nothing when the directory is missing, and uninstalling
\* again what has just been uninstalled changes nothing.
C24_InstallUninstallIdempotent ==
    [][ /\ (last'.op = "installSkill" /\ last'.outcome = "returned") =>
            /\ skillFiles'[last'.name].skillMd = last'.served.content
            /\ installSkillFiles(skillFiles', last'.name, last'.served, "none")
                    = [files |-> skillFiles', ok |-> TRUE]
        /\ last'.op = "uninstallSkill" =>
            /\ last'.outcome = "returned"
            /\ ~last'.before.exists => skillFiles' = skillFiles
            /\ uninstallSkillFiles(skillFiles', last'.name)
                    = [files |-> skillFiles', threw |-> FALSE]
      ]_vars

\* react has just been installed over an installation with another SKILL.md,
\* while the typescript directory, uninstalled or never installed, is missing
C24_InstalledOverAnother ==
    /\ last.op = "installSkill" /\ last.outcome = "returned" /\ last.name = "react"
    /\ last.before.exists /\ last.before.skillMd = "v1"
    /\ skillFiles["react"].skillMd = "v2"
    /\ ~skillFiles["typescript"].exists

-----------------------------------------------------------------------------
(* Properties of manual_only catalog entries *)

\* C25: a catalog entry with triggers.manual_only set is never matched by
\* detection, neither because a detected technology has its name nor because
\* a detection's source holds one of its trigger packages: matchSkillsToStack
\* returns no such entry, and in the matches a preview stores such an entry
\* is there because always_include names it, or because a stored match lists
\* it among its dependencies
C25_ManualOnlyNeverDetected ==
    /\ \A m \in Range(matchSkillsToStack(detectedStack, catalog)) :
          ~m.skill.triggers.manual_only
    /\ \A id \in DOMAIN pendingSyncs :
          \A m \in Range(pendingSyncs[id].matches) :
             m.skill.triggers.manual_only =>
                 \/ /\ m.source = "manual"
                    /\ Includes(config.skills.always_include, m.skill.name)
                 \/ /\ m.source = "dependency"
                    /\ \E o \in Range(pendingSyncs[id].matches) :
                          Includes(o.skill.dependencies, m.skill.name)

\* preview_sync has stored a session for a project in which a manual_only
\* entry is detected by name and by trigger package, and the entry is not
\* among the matches
C25_DetectedButManualOnly ==
    /\ last.op = "preview_sync"
    /\ last.id \in DOMAIN pendingSyncs
    /\ \E k \in 1..Len(catalog) :
          /\ catalog[k].triggers.manual_only
          /\ \E d \in Range(AllDetected(detectedStack)) : d.id = catalog[k].name
          /\ PackageHits(catalog[k], AllDetected(detectedStack)) # {}
          /\ \A m \in Range(pendingSyncs[last.id].matches) :
                m.skill.name # catalog[k].name

-----------------------------------------------------------------------------
(* Properties of the target agents *)

\* the install paths of Claude and of Copilot under the configuration
BothPaths == [a \in 1..2 |-> getInstallPath(AGENT_PROFILES[<<"claude", "copilot">>[a]], config)]

\* C26: with agent.sync_both enabled or the agent parameter 'both', when a
\* sync_skills that is not a dry run has completed, every resolved skill is
\* installed in its catalog version under the install path of Claude and
\* under the install path of Copilot, and the result lists both agents and
\* both paths
C26_InstalledForBothAgents ==
    [][ ( /\ last'.op = "sync_skills"
          /\ last'.outcome = "ok"
          /\ (config.agent.sync_both \/ last'.agent = "both") )
        => /\ last'.targets = <<"claude", "copilot">>
           /\ last'.paths = BothPaths
           /\ \A m \in Range(FinalSkills(detectedStack, config, catalog)) :
                 \A a \in 1..2 :
                    fs'.skills[BothPaths[a]][m.skill.name] = m.skill.version ]_vars

\* C28: reset_skills with confirm = true and all_agents not set leaves the
\* install path of every agent other than the detected one as it was
C28_OtherAgentsUntouched ==
    [][ ( /\ last'.op = "reset_skills"
          /\ last'.outcome = "ok"
          /\ last'.mode = "detected agent" )
        => \A a \in AgentIds \ {DetectedAgent} :
              LET p == getInstallPath(AGENT_PROFILES[a], config)
              IN  p # getInstallPath(Profile, config)
                     => fs'.dirs[p] = fs.dirs[p] /\ fs'.skills[p] = fs.skills[p] ]_vars

-----------------------------------------------------------------------------
(* Properties of the bundle cache *)

\* C27: getAllBundles returns previously obtained bundles without fetching
\* only while forceRefresh is false and the copy it returns was fetched less
\* than the maximum cache age ago; once the copy it holds, in memory or in
\* bundles-cache.json, is that old or older, the call fetches
C27_BundlesServedWhileFresh ==
    [][ last'.op = "getAllBundles"
        => /\ last'.outcome \in {"memory", "disk"}
                => /\ last'.mode = "default"
                   /\ today - cachedBundles'.obtained < CacheMaxAgeDays
           /\ ( /\ cachedBundles.loaded \/ bundlesCache.readable
                /\ cachedBundles.loaded
                      => today - cachedBundles.obtained >= CacheMaxAgeDays
                /\ bundlesCache.readable
                      => today - bundlesCache.fetched_at >= CacheMaxAgeDays )
                => last'.outcome \in {"fetched", "fetch failed"} ]_vars

-----------------------------------------------------------------------------
(* Properties of the configuration *)

\* C29: whenever config.yaml does not exist, loadConfig returns the default
\* configuration, agent.mode 'auto', agent.sync_both false and a cache
\* refresh interval of 7 days, whatever ConfigManager operations the process
\* has performed before
C29_DefaultsWithoutFile ==
    [][ (last'.op = "loadConfig" /\ ~configFile.exists)
        => /\ last'.loaded.agent.mode = "auto"
           /\ last'.loaded.agent.sync_both = FALSE
           /\ last'.loaded.refresh_interval_days = 7 ]_vars

-----------------------------------------------------------------------------
(* Properties of the session table as a whole *)

\* the sessions that the clean-up loop of a preview made at the current time
\* deletes: those created more than five minutes before
Expired == {id \in DOMAIN pendingSyncs : pendingSyncs[id].timestamp < now - FiveMinutes}

\* C31: a call changes the session table only as follows.  A call that
\* previews adds its own new session and removes exactly the sessions older
\* than five minutes; a confirm_sync that completes removes exactly the
\* session it confirmed; every other call, a confirm_sync that fails
\* included, leaves the table as it is.  Every session that stays keeps its
\* pending changes.  (A restart of the process is not a call.)
C31_SessionTableFrame ==
    [][ last'.op # "restart"
        => /\ nextId' # nextId
                => /\ last'.id \notin DOMAIN pendingSyncs
                   /\ DOMAIN pendingSyncs' = (DOMAIN pendingSyncs \ Expired) \cup {last'.id}
           /\ (last'.op = "confirm_sync" /\ last'.outcome = "ok")
                => DOMAIN pendingSyncs' = DOMAIN pendingSyncs \ {last'.id}
           /\ (nextId' = nextId /\ ~(last'.op = "confirm_sync" /\ last'.outcome = "ok"))
                => DOMAIN pendingSyncs' = DOMAIN pendingSyncs
           /\ \A id \in DOMAIN pendingSyncs' \cap DOMAIN pendingSyncs :
                 pendingSyncs'[id] = pendingSyncs[id] ]_vars

\* a confirm_sync has completed while another session was pending, and that
\* session is still in the table
C31_OtherSessionKept ==
    /\ last.op = "confirm_sync"
    /\ last.outcome = "ok"
    /\ last.id \notin DOMAIN pendingSyncs
    /\ \E id \in DOMAIN pendingSyncs : id # last.id /\ id \notin confirmed

-----------------------------------------------------------------------------
(* Properties of the final resolved set under exclusions *)

\* C32: the final resolved set is dependency-closed.  In the matches every
\* session stores, each dependency that an entry declares, that the catalog
\* has and that always_exclude does not name is present exactly once; a
\* declared dependency that the catalog does not have is not in the set, and
\* the preview is made all the same
C32_DependencyClosed ==
    \A id \in DOMAIN pendingSyncs :
        LET matches == pendingSyncs[id].matches
        IN  \A i \in 1..Len(matches) :
               \A d \in Range(matches[i].skill.dependencies) :
                  IF FindIndex(catalog, d) # 0 /\ ~Includes(config.skills.always_exclude, d)
                  THEN Cardinality({j \in 1..Len(matches) : matches[j].skill.name = d}) = 1
                  ELSE \A j \in 1..Len(matches) : matches[j].skill.name # d

\* a session whose matches hold nextjs, which was matched, and typescript,
\* which only react needs, which only nextjs needs
C32_ChainFollowed ==
    /\ catalog = ChainCatalog
    /\ config.skills.always_exclude = <<>>
    /\ \E id \in DOMAIN pendingSyncs :
          LET matches == pendingSyncs[id].matches
          IN  /\ \E i \in 1..Len(matches) :
                    matches[i].skill.name = "nextjs" /\ matches[i].source # "dependency"
              /\ \E i \in 1..Len(matches) :
                    matches[i].skill.name = "typescript" /\ matches[i].source = "dependency"

\* C39: every entry of the final resolved set whose source is 'dependency'
\* is a declared dependency of another entry of the set; a skill reached
\* only through an excluded skill is not retained
C39_DependenciesSupported ==
    \A id \in DOMAIN pendingSyncs :
        LET matches == pendingSyncs[id].matches
        IN  \A i \in 1..Len(matches) :
               matches[i].source = "dependency"
                  => \E j \in 1..Len(matches) :
                        /\ j # i
                        /\ Includes(matches[j].skill.dependencies, matches[i].skill.name)

-----------------------------------------------------------------------------
(* Properties of the manual lists of the project context *)

Disjoint(ctx) == Range(ctx.include_skills) \cap Range(ctx.exclude_skills) = {}

\* C33: on an existing project context the manual include and exclude lists
\* stay disjoint under addManualSkill, excludeSkill and updateContext: after
\* addManualSkill(x) has returned x is included and not excluded, after
\* excludeSkill(x) has returned x is excluded and not included, and
\* updateContext leaves both lists as they are
C33_ManualListsDisjoint ==
    [][ /\ Disjoint(context) => Disjoint(context')
        /\ (last'.op = "addManualSkill" /\ last'.outcome = "ok" /\ context.exists)
              => /\ Includes(context'.include_skills, last'.name)
                 /\ ~Includes(context'.exclude_skills, last'.name)
        /\ (last'.op = "excludeSkill" /\ last'.outcome = "ok" /\ context.exists)
              => /\ Includes(context'.exclude_skills, last'.name)
                 /\ ~Includes(context'.include_skills, last'.name)
        /\ (last'.op = "updateContext" /\ context.exists)
              => /\ context'.include_skills = context.include_skills
                 /\ context'.exclude_skills = context.exclude_skills ]_vars

\* addManualSkill has returned for a skill that was excluded before, and
\* other skills are still on each of the two lists
C33_ExcludedThenIncluded ==
    /\ last.op = "addManualSkill"
    /\ last.outcome = "ok"
    /\ last.name = "nextjs"
    /\ context.include_skills = <<"react", "nextjs">>
    /\ context.exclude_skills = <<>>

\* the pending changes of the preview a step has just stored, none when the
\* step is not a preview
NewChanges == IF nextId' # nextId THEN Range(pendingSyncs'[last'.id].preview.pending_changes)
              ELSE {}

\* the install path of the detected agent holds a version of skill x
InstalledIn(f, x) ==
    x \in SkillNames /\ f.skills[getInstallPath(Profile, config)][x] \in Versions

\* C37: while a skill is on the manual exclude list of the project context,
\* where uninstall_skill has recorded it, no preview lists it as an add and
\* no sync installs it
C37_ExcludedNeverAddedAgain ==
    [][ \A x \in Range(context.exclude_skills) \cap Range(context'.exclude_skills) :
           /\ \A change \in NewChanges : ~(change.name = x /\ change.action = "add")
           /\ (last'.op = "sync_skills" /\ last'.outcome = "ok")
                 => ~(~InstalledIn(fs, x) /\ InstalledIn(fs', x)) ]_vars

\* C38: a skill that install_skill has installed and recorded on the manual
\* include list of the project context is never scheduled for removal by a
\* preview and never removed by a sync, even with auto_remove enabled and the
\* skill not detected
C38_IncludedNeverRemoved ==
    [][ \A x \in Range(context.include_skills) \cap Range(context'.include_skills) :
           /\ \A change \in NewChanges : ~(change.name = x /\ change.action = "remove")
           /\ (last'.op = "sync_skills" /\ last'.outcome = "ok")
                 => ~(InstalledIn(fs, x) /\ ~InstalledIn(fs', x)) ]_vars

-----------------------------------------------------------------------------
(* Properties of confirmSync calls that overlap *)

\* a confirmSync call returns: it leaves the calls in flight
Returned == Len(inflight') < Len(inflight)

\* C34: of the confirmSync calls made for one session id, however they are
\* interleaved at their awaits, at most one applies the changes and returns
\* its result: no call returns a result for a session another call has
\* already returned one for
C34_OneCallApplies ==
    [][ (Returned /\ last'.outcome = "ok") => last'.id \notin confirmed ]_vars

\* C34 for calls that do not overlap: a call that starts after another call
\* has returned its result for the session never gets hold of the session
Began == Len(inflight') > Len(inflight)
C34_LateCallFails ==
    [][ Began => inflight'[Len(inflight')].id \notin confirmed ]_vars

\* a call for a session that has been applied has failed with the error
C34_LateCallFailed ==
    /\ last.op = "confirm_sync"
    /\ last.id \in confirmed
    /\ last.outcome = "not found or expired"

-----------------------------------------------------------------------------
(* Properties of a preview that follows a sync *)

\* the pending changes a preview would report after the step
ChangesAfter ==
    BuildPreview(detectedStack', getInstalledSkills(fs', config', Profile), config',
                 catalog', 0).pending_changes

\* the step is an immediate sync, or a confirmation without approved and
\* rejected lists, that completed without error
SyncDone == last'.op = "sync_skills" /\ last'.mode = "immediate" /\ last'.outcome = "ok"
DefaultConfirmDone ==
    /\ last'.op = "confirm_sync"
    /\ last'.outcome = "ok"
    /\ ~last'.approved.given
    /\ ~last'.rejected.given

DocumentsAgree == \A i \in 1..Len(catalog) : ContentVersion(catalog[i]) = catalog[i].version

\* the sync wrote to the installation directory of the detected agent, the
\* one a preview reads
OnDetectedPath == Profile.id \in Range(last'.targets)

\* the confirmed session was computed from the installed skills the
\* confirmation found
SnapshotCurrent == pendingSyncs[last'.id].installedSkills = Installed

-----------------------------------------------------------------------------
(* Properties relating the two ways of applying a sync *)

\* C36: a default confirm of a preview computed from the installed skills it
\* finds leaves the installation directories as an immediate sync run on the
\* same stack, catalog, configuration and installed skills would
C36_ConfirmEqualsImmediateSync ==
    [][ (DefaultConfirmDone /\ SnapshotCurrent)
            => fs' = syncSkills(fs, detectedStack, Installed,
                                [dryRun |-> FALSE, agent |-> "auto"],
                                config, Profile, catalog, NoFault).fs ]_vars

-----------------------------------------------------------------------------
(* Properties of the cache files after a fetch that failed *)

\* a non-forced getAllSkills made after the step would fetch the registry
WouldFetch(url) ==
    getRegistryIndex([url |-> url, priority |-> 1], FALSE, cacheFiles',
                     [u \in RegistryUrls |-> Throws], today').fetched

\* C40: a fetch of a source that fails leaves the cache file of the source as
\* it was, and the next non-forced getAllSkills fetches the source again
C40_FailedFetchLeavesCache ==
    [][ last'.op = "getAllSkills" =>
          \A url \in last'.fetched :
              FetchFailed(last'.origins[url])
                  => cacheFiles'[url] = cacheFiles[url] /\ WouldFetch(url) ]_vars

\* C40 for the fetches that throw: the cache file is left as it was, and the
\* next non-forced getAllSkills fetches the source again unless the file was
\* still fresh (the failed fetch was a forced one)
C40_ThrownFetchLeavesCache ==
    [][ last'.op = "getAllSkills" =>
          \A url \in last'.failed :
              /\ cacheFiles'[url] = cacheFiles[url]
              /\ ~Fresh(cacheFiles[url], FALSE, today) => WouldFetch(url) ]_vars

\* a fetch has thrown for a registry whose cache file an earlier call wrote
C40_FailedWithCacheFile ==
    /\ last.op = "getAllSkills"
    /\ \E url \in last.failed : cacheFiles[url].readable

====
